---- MODULE Spec2Model ----
(***************************************************************************)
(* Grindstone: a terminal pomodoro timer.                                  *)
(*                                                                         *)
(* The module models the timer engine (src/src/timer/pomodoro.rs) and the  *)
(* application slice that drives it (src/src/app.rs): the key handlers of  *)
(* the timer view and of the input and settings modals, the tick handler   *)
(* and the session lifecycle (create / start / complete / stop).           *)
(*                                                                         *)
(* Time.  std::time::Duration and Instant are modelled as integers in      *)
(* units of 1/UnitsPerSec second.  Duration::from_secs(s) is               *)
(* s * UnitsPerSec and Duration::as_secs() is integer division by          *)
(* UnitsPerSec, so the truncation to whole seconds is part of the model.   *)
(* Instant::now() is the variable now.  The wall clock (Clock trait) is    *)
(* read as whole seconds of the same time line.                            *)
(***************************************************************************)
EXTENDS Integers, Sequences, FiniteSets, TLC

\* ------------------------------------------------------------------ bounds
\* Model time units per second (sub-second resolution of Duration).
UnitsPerSec == 2
\* Horizon of the monotonic clock, in model time units.
MaxNow == 6
\* Largest number of work completions followed by the cycle harness.
MaxWorks == 8
\* Horizon of the monotonic clock in the harness of all engine operations.
MaxTotalNow == 3
\* Wall-clock timestamp (epoch seconds) at which the process starts.
EpochAtStart == 100
\* MAX of the BoundedString<MAX> of the string harness, in bytes.
BoundedMax == 5
\* Largest number of characters of a string given to from_string.
MaxSourceLen == 3

\* ------------------------------------------------------- program constants
\* config.rs: DEFAULT_WORK_DURATION, DEFAULT_SHORT_BREAK, DEFAULT_LONG_BREAK
DEFAULT_WORK_SECS == 25 * 60
DEFAULT_SHORT_BREAK_SECS == 5 * 60
DEFAULT_LONG_BREAK_SECS == 15 * 60
SESSIONS_UNTIL_LONG_BREAK == 4
\* Width of the u8 fields sessions_until_long and sessions_completed.
U8Modulus == 256
\* app.rs InputState: name is a BoundedString<100>, description a BoundedString<500>
NAME_MAX == 100
DESCRIPTION_MAX == 500

VARIABLES
    now,              \* Instant::now(): the monotonic clock, in model units
    timer,            \* App.timer: the PomodoroTimer
    session_phase,    \* App.session_phase
    modal,            \* App.modal
    view,             \* App.view
    input,            \* App.input: the InputState of the input modal
    data,             \* App.data: categories and committed config
    notification,     \* App.notification
    running,          \* App.running
    db,               \* App.db: None, or Some handle of the attached database
    saved,            \* the sessions handed to db.save_session during the last step
    settings,         \* App.settings: the SettingsState of the settings modal
    config_written,   \* the configurations handed to db.save_config during the last step
    table,            \* the rows of the sessions table of the database
    deleted,          \* the ids handed to db.delete_session during the last step
    bounded,          \* the content of a BoundedString<BoundedMax>
    given,            \* observation: the argument of the last from_string or push
    last,             \* observation: label of the operation of the last step
    ranFor,           \* observation: time spent Running since the run-state last left Idle
    captured,         \* observation: what elapsed() returned when pause() last took effect
    durBefore,        \* observation: current_phase_duration() before the last step
    works,            \* observation: number of advance_phase() calls made in the Work phase
    thresholdChanged  \* observation: sessions_until_long was changed after construction

obsvars == <<last, ranFor, captured, durBefore, works, thresholdChanged>>
appvars ==
    <<session_phase, modal, view, input, data, notification, running, db, saved,
      settings, config_written>>
strvars == <<bounded, given>>
histvars == <<table, deleted>>
vars == <<now, timer, appvars, strvars, histvars, obsvars>>

\* ------------------------------------------------------------ Duration
from_secs(s) == s * UnitsPerSec
as_secs(d) == d \div UnitsPerSec
saturating_sub(a, b) == IF a > b THEN a - b ELSE 0

\* ------------------------------------------------------------ Config
\* models/session.rs: Config::default()
ConfigDefault ==
    [work_duration_secs |-> DEFAULT_WORK_SECS,
     short_break_secs |-> DEFAULT_SHORT_BREAK_SECS,
     long_break_secs |-> DEFAULT_LONG_BREAK_SECS,
     sessions_until_long_break |-> SESSIONS_UNTIL_LONG_BREAK]

\* models/session.rs: Config::is_valid()
is_valid(c) ==
    /\ c.work_duration_secs > 0
    /\ c.short_break_secs > 0
    /\ c.long_break_secs > 0
    /\ c.sessions_until_long_break > 0

\* Configurations a database can hold when the program starts (db.get_config()
\* in App::new) and that apply_config is called with: short phases, so that
\* phases finish within the clock horizon.
StoredConfigs ==
    { [work_duration_secs |-> 2, short_break_secs |-> 1, long_break_secs |-> 2,
       sessions_until_long_break |-> 2],
      [work_duration_secs |-> 1, short_break_secs |-> 2, long_break_secs |-> 1,
       sessions_until_long_break |-> 1] }

\* The configurations the engine harness applies: the stored ones and one more
\* threshold.
HarnessConfigs ==
    StoredConfigs \cup
    { [work_duration_secs |-> 1, short_break_secs |-> 1, long_break_secs |-> 1,
       sessions_until_long_break |-> 3] }

\* ------------------------------------------------------------ TimerState
Idle == [tag |-> "Idle"]
Running(started, elapsed_before_pause) ==
    [tag |-> "Running", started |-> started,
     elapsed_before_pause |-> elapsed_before_pause]
Paused(e) == [tag |-> "Paused", elapsed |-> e]

\* TimerPhase::is_break
is_break(phase) == phase \in {"ShortBreak", "LongBreak"}

\* ------------------------------------------------------------ PomodoroTimer
\* PomodoroTimer::default() / new()
NewTimer ==
    [phase |-> "Work",
     state |-> Idle,
     work_duration |-> from_secs(DEFAULT_WORK_SECS),
     short_break |-> from_secs(DEFAULT_SHORT_BREAK_SECS),
     long_break |-> from_secs(DEFAULT_LONG_BREAK_SECS),
     sessions_until_long |-> SESSIONS_UNTIL_LONG_BREAK,
     sessions_completed |-> 0]

current_phase_duration(t) ==
    CASE t.phase = "Work" -> t.work_duration
      [] t.phase = "ShortBreak" -> t.short_break
      [] t.phase = "LongBreak" -> t.long_break

\* Instant::elapsed() of `started`, read at instant n
instant_elapsed(started, n) == saturating_sub(n, started)

\* Mutant of elapsed: a paused timer keeps counting from the stored value.
elapsed_paused_drifts(t, n) ==
    CASE t.state.tag = "Idle" -> 0
      [] t.state.tag = "Running" ->
            t.state.elapsed_before_pause + instant_elapsed(t.state.started, n)
      [] t.state.tag = "Paused" -> t.state.elapsed + n

\* Mutant of elapsed: an idle timer reports the age of the process.
elapsed_idle_counts(t, n) ==
    CASE t.state.tag = "Idle" -> n
      [] t.state.tag = "Running" ->
            t.state.elapsed_before_pause + instant_elapsed(t.state.started, n)
      [] t.state.tag = "Paused" -> t.state.elapsed

elapsed(t, n) ==
    CASE t.state.tag = "Idle" -> 0
      [] t.state.tag = "Running" ->
            t.state.elapsed_before_pause + instant_elapsed(t.state.started, n)
      [] t.state.tag = "Paused" -> t.state.elapsed

\* Mutant of remaining: plain subtraction instead of saturating_sub.
remaining_plain_sub(t, n) == current_phase_duration(t) - elapsed(t, n)

remaining(t, n) == saturating_sub(current_phase_duration(t), elapsed(t, n))

is_finished(t, n) == elapsed(t, n) >= current_phase_duration(t)

is_running(t) == t.state.tag = "Running"
is_paused(t) == t.state.tag = "Paused"
is_idle(t) == t.state.tag = "Idle"

\* Mutant of start: resuming restarts the countdown from zero.
start_resume_restarts(t, n) ==
    CASE t.state.tag = "Idle" -> [t EXCEPT !.state = Running(n, 0)]
      [] t.state.tag = "Paused" -> [t EXCEPT !.state = Running(n, 0)]
      [] t.state.tag = "Running" -> t

\* Mutant of start: a start() while Running restarts the countdown.
start_restarts_running(t, n) ==
    CASE t.state.tag = "Idle" -> [t EXCEPT !.state = Running(n, 0)]
      [] t.state.tag = "Paused" -> [t EXCEPT !.state = Running(n, t.state.elapsed)]
      [] t.state.tag = "Running" -> [t EXCEPT !.state = Running(n, 0)]

start(t, n) ==
    CASE t.state.tag = "Idle" -> [t EXCEPT !.state = Running(n, 0)]
      [] t.state.tag = "Paused" -> [t EXCEPT !.state = Running(n, t.state.elapsed)]
      [] t.state.tag = "Running" -> t

\* Mutant of pause: the elapsed time is not captured.
pause_stores_zero(t, n) ==
    IF t.state.tag = "Running"
    THEN [t EXCEPT !.state = Paused(0)]
    ELSE t

pause(t, n) ==
    IF t.state.tag = "Running"
    THEN [t EXCEPT !.state = Paused(elapsed(t, n))]
    ELSE t

\* Mutant of reset: the cycle restarts in the Work phase.
reset_restarts_cycle(t) == [t EXCEPT !.state = Idle, !.phase = "Work"]

\* Mutant of reset: the completed-session counter is cleared too.
reset_clears_counter(t) == [t EXCEPT !.state = Idle, !.sessions_completed = 0]

reset(t) == [t EXCEPT !.state = Idle]

\* sessions_completed += 1 on a u8 (wrapping, as in a release build)
u8_add1(x) == (x + 1) % U8Modulus

\* Mutant of advance_phase: the counter is compared with > instead of >=.
advance_phase_off_by_one(t) ==
    LET done == u8_add1(t.sessions_completed) IN
    CASE t.phase = "Work" ->
            IF done > t.sessions_until_long
            THEN [t EXCEPT !.phase = "LongBreak", !.sessions_completed = 0,
                           !.state = Idle]
            ELSE [t EXCEPT !.phase = "ShortBreak", !.sessions_completed = done,
                           !.state = Idle]
      [] t.phase \in {"ShortBreak", "LongBreak"} ->
            [t EXCEPT !.phase = "Work", !.state = Idle]

\* Mutant of advance_phase: leaving a break clears the counter.
advance_phase_break_clears_counter(t) ==
    LET done == u8_add1(t.sessions_completed) IN
    CASE t.phase = "Work" ->
            IF done >= t.sessions_until_long
            THEN [t EXCEPT !.phase = "LongBreak", !.sessions_completed = 0,
                           !.state = Idle]
            ELSE [t EXCEPT !.phase = "ShortBreak", !.sessions_completed = done,
                           !.state = Idle]
      [] t.phase \in {"ShortBreak", "LongBreak"} ->
            [t EXCEPT !.phase = "Work", !.sessions_completed = 0, !.state = Idle]

\* Mutant of advance_phase: the counter is not cleared when a long break starts.
advance_phase_keeps_counting(t) ==
    LET done == u8_add1(t.sessions_completed) IN
    CASE t.phase = "Work" ->
            IF done >= t.sessions_until_long
            THEN [t EXCEPT !.phase = "LongBreak", !.sessions_completed = done,
                           !.state = Idle]
            ELSE [t EXCEPT !.phase = "ShortBreak", !.sessions_completed = done,
                           !.state = Idle]
      [] t.phase \in {"ShortBreak", "LongBreak"} ->
            [t EXCEPT !.phase = "Work", !.state = Idle]

advance_phase(t) ==
    LET done == u8_add1(t.sessions_completed) IN
    CASE t.phase = "Work" ->
            IF done >= t.sessions_until_long
            THEN [t EXCEPT !.phase = "LongBreak", !.sessions_completed = 0,
                           !.state = Idle]
            ELSE [t EXCEPT !.phase = "ShortBreak", !.sessions_completed = done,
                           !.state = Idle]
      [] t.phase \in {"ShortBreak", "LongBreak"} ->
            [t EXCEPT !.phase = "Work", !.state = Idle]

\* Mutant of skip_break: the run-state of the break is carried into Work.
skip_break_keeps_state(t) ==
    IF is_break(t.phase)
    THEN [t EXCEPT !.phase = "Work"]
    ELSE t

skip_break(t) ==
    IF is_break(t.phase)
    THEN [t EXCEPT !.phase = "Work", !.state = Idle]
    ELSE t

\* `as u8` of an i64
as_u8(x) == x % U8Modulus

\* Mutant of apply_config: the threshold is stored at the width of the
\* configuration's field, not of the timer's.
apply_config_keeps_width(t, c) ==
    [t EXCEPT !.work_duration = from_secs(c.work_duration_secs),
              !.short_break = from_secs(c.short_break_secs),
              !.long_break = from_secs(c.long_break_secs),
              !.sessions_until_long = c.sessions_until_long_break]

\* Mutant of apply_config: the phase in progress is reset.
apply_config_resets(t, c) ==
    [t EXCEPT !.work_duration = from_secs(c.work_duration_secs),
              !.short_break = from_secs(c.short_break_secs),
              !.long_break = from_secs(c.long_break_secs),
              !.sessions_until_long = as_u8(c.sessions_until_long_break),
              !.state = Idle]

apply_config(t, c) ==
    [t EXCEPT !.work_duration = from_secs(c.work_duration_secs),
              !.short_break = from_secs(c.short_break_secs),
              !.long_break = from_secs(c.long_break_secs),
              !.sessions_until_long = as_u8(c.sessions_until_long_break)]

\* ------------------------------------------------------------ Option
None == [tag |-> "None"]
Some(x) == [tag |-> "Some", value |-> x]

\* ------------------------------------------------------------ strings
\* A String is a sequence of characters, a character a one-letter string.
Whitespace == {" "}
\* Characters outside ASCII, named by their code point: U+00E9 takes 2 bytes
\* in UTF-8, U+20AC 3 bytes and U+1F389 4 bytes.
MultiByteChars == {"U+00E9", "U+20AC", "U+1F389"}

\* char::len_utf8
len_utf8(c) ==
    CASE c = "U+00E9" -> 2
      [] c = "U+20AC" -> 3
      [] c = "U+1F389" -> 4
      [] OTHER -> 1

RECURSIVE str_len(_)
\* String::len(): the length in bytes
str_len(s) == IF s = <<>> THEN 0 ELSE len_utf8(Head(s)) + str_len(Tail(s))

\* s.trim().is_empty()
trim_is_empty(s) == \A i \in 1..Len(s) : s[i] \in Whitespace

\* str::is_char_boundary: byte offset i is where a character of s starts, or
\* the end of s
is_char_boundary(s, i) == \E k \in 0..Len(s) : str_len(SubSeq(s, 1, k)) = i

RECURSIVE boundary_at_or_before(_, _)
\* BoundedString::from_string: while end > 0 && !s.is_char_boundary(end) { end -= 1 }
boundary_at_or_before(s, end) ==
    IF end > 0 /\ ~is_char_boundary(s, end)
    THEN boundary_at_or_before(s, end - 1)
    ELSE end

\* &s[..end] for a character boundary end: the characters before byte offset end
byte_prefix(s, end) ==
    SubSeq(s, 1, CHOOSE k \in 0..Len(s) : str_len(SubSeq(s, 1, k)) = end)

\* Mutant of from_string: the string is cut after the character that holds
\* byte MAX.
from_string_keeps_split_char(MAX, s) ==
    IF str_len(s) <= MAX THEN s
    ELSE SubSeq(s, 1, CHOOSE k \in 0..Len(s) :
                         /\ str_len(SubSeq(s, 1, k)) >= MAX
                         /\ \A j \in 0..(k - 1) : str_len(SubSeq(s, 1, j)) < MAX)

\* BoundedString<MAX>::from_string
from_string(MAX, s) ==
    IF str_len(s) <= MAX THEN s
    ELSE byte_prefix(s, boundary_at_or_before(s, MAX))

\* BoundedString<MAX>::clear (String::clear)
bounded_clear(s) == <<>>

\* BoundedString<MAX>::push
bounded_push(MAX, s, c) ==
    IF str_len(s) + len_utf8(c) <= MAX THEN Append(s, c) ELSE s

\* BoundedString<MAX>::pop (String::pop)
bounded_pop(s) == IF s = <<>> THEN s ELSE SubSeq(s, 1, Len(s) - 1)

\* The decimal digits, by value + 1
Digits == <<"0", "1", "2", "3", "4", "5", "6", "7", "8", "9">>

\* char::is_ascii_digit
is_ascii_digit(c) == \E i \in 1..Len(Digits) : Digits[i] = c

digit_value(c) == (CHOOSE i \in 1..Len(Digits) : Digits[i] = c) - 1

RECURSIVE to_string(_)
\* i64::to_string: the decimal digits, most significant first, after a '-'
\* for a negative number
to_string(v) ==
    IF v < 0 THEN <<"-">> \o to_string(0 - v)
    ELSE IF v < 10 THEN <<Digits[v + 1]>>
    ELSE to_string(v \div 10) \o <<Digits[(v % 10) + 1]>>

\* Result of str::parse
Err == [tag |-> "Err"]
Ok(v) == [tag |-> "Ok", value |-> v]

RECURSIVE digits_value(_)
\* The number a non-empty sequence of digits denotes
digits_value(s) ==
    IF Len(s) = 1 THEN digit_value(s[1])
    ELSE 10 * digits_value(SubSeq(s, 1, Len(s) - 1)) + digit_value(s[Len(s)])

\* str::parse::<i64>: an optional sign and at least one digit, nothing else
\* (the numbers typed stay far below i64::MAX, where parse returns Err)
parse_i64(s) ==
    LET signed == s # <<>> /\ s[1] \in {"+", "-"}
        body == IF signed THEN Tail(s) ELSE s
    IN  IF body = <<>> \/ \E i \in 1..Len(body) : ~is_ascii_digit(body[i]) THEN Err
        ELSE IF signed /\ s[1] = "-" THEN Ok(0 - digits_value(body))
        ELSE Ok(digits_value(body))

\* validation.rs: validate_session_name
validate_session_name(name) == ~trim_is_empty(name)

\* ------------------------------------------------------------ Clock
\* Clock::now_timestamp(): the wall clock in epoch seconds, read at instant n
now_timestamp(n) == EpochAtStart + as_secs(n)

\* Timestamp::from_clock(clock)
from_clock(n) == now_timestamp(n)

\* ------------------------------------------------------------ key events
\* A key press is named by its KeyCode: a character for KeyCode::Char, or the
\* name of the key.
TypedChars == {"a", " "}
CommandChars == {"s", "p", "r", "x", "n", "c"}
IsChar(key) == key \in TypedChars \cup CommandChars \/ is_ascii_digit(key)

\* ------------------------------------------------------------ App
\* Category::defaults(), by name
DefaultCategories ==
    << [id |-> None, name |-> "work"], [id |-> None, name |-> "study"],
       [id |-> None, name |-> "coding"], [id |-> None, name |-> "reading"],
       [id |-> None, name |-> "exercise"], [id |-> None, name |-> "other"] >>

\* InputState::default()
InputDefault ==
    [field |-> "Name", name |-> <<>>, description |-> <<>>, selected_category |-> 0]

\* SettingsState::default(), for the fields the keys pressed can reach: the
\* form of the category editor (new_category_name, new_category_color,
\* editing_category_id) is left out.
SettingsDefault ==
    [mode |-> "Timer", field |-> "WorkDuration", editing_value |-> <<>>,
     editing_config |-> ConfigDefault, category_field |-> "List",
     category_list_index |-> 0]

\* SettingsField::next
SettingsFieldNext(f) ==
    CASE f = "WorkDuration" -> "ShortBreak"
      [] f = "ShortBreak" -> "LongBreak"
      [] f = "LongBreak" -> "SessionsUntilLong"
      [] f = "SessionsUntilLong" -> "WorkDuration"

\* SettingsField::prev
SettingsFieldPrev(f) ==
    CASE f = "WorkDuration" -> "SessionsUntilLong"
      [] f = "ShortBreak" -> "WorkDuration"
      [] f = "LongBreak" -> "ShortBreak"
      [] f = "SessionsUntilLong" -> "LongBreak"

\* InputField::next
InputFieldNext(f) ==
    CASE f = "Name" -> "Description"
      [] f = "Description" -> "Category"
      [] f = "Category" -> "Name"

\* SessionPhase
Inactive == [tag |-> "Inactive"]
Ready(session) == [tag |-> "Ready", session |-> session]
Active(session, start_time) ==
    [tag |-> "Active", session |-> session, start_time |-> start_time]

\* The App as the handlers see it (self), with the sessions handed to
\* db.save_session so far in the current step.
Self ==
    [timer |-> timer, session_phase |-> session_phase, modal |-> modal,
     view |-> view, input |-> input, data |-> data,
     notification |-> notification, running |-> running, db |-> db,
     saved |-> <<>>, settings |-> settings, config_written |-> <<>>,
     table |-> table, deleted |-> <<>>]

\* App::has_session
has_session(a) == a.session_phase.tag # "Inactive"

\* App::notify
notify(a, level, message) ==
    [a EXCEPT !.notification = Some([message |-> message, level |-> level])]

\* App::quit
quit(a) == [a EXCEPT !.running = FALSE]

\* Mutant of the save: a failed write stops the application.
save_if_attached_quits(a, session, ok) ==
    IF a.db.tag = "Some"
    THEN LET handed == [a EXCEPT !.saved = Append(@, session)] IN
         IF ok THEN handed
         ELSE quit(notify(handed, "Error", "Failed to save session!"))
    ELSE a

\* db.save_session(&session) when a database is attached: the session is
\* handed over, and a failure (ok = FALSE) raises the Error notification.
save_if_attached(a, session, ok) ==
    IF a.db.tag = "Some"
    THEN LET handed == [a EXCEPT !.saved = Append(@, session)] IN
         IF ok THEN handed
         ELSE notify(handed, "Error", "Failed to save session!")
    ELSE a

\* Mutant of start_timer: an Active session keeps its start_time.
start_timer_keeps_start_time(a, n) ==
    LET phase == a.session_phase
        next ==
            CASE phase.tag = "Ready" -> Active(phase.session, from_clock(n))
              [] phase.tag = "Active" -> phase
              [] phase.tag = "Inactive" -> Inactive
    IN  [a EXCEPT !.session_phase = next, !.timer = start(@, n)]

\* App::start_timer
start_timer(a, n) ==
    LET phase == a.session_phase
        next ==
            CASE phase.tag = "Ready" -> Active(phase.session, from_clock(n))
              [] phase.tag = "Active" -> Active(phase.session, from_clock(n))
              [] phase.tag = "Inactive" -> Inactive
    IN  [a EXCEPT !.session_phase = next, !.timer = start(@, n)]

\* Mutant of create_session: the new draft is written to storage at once.
create_session_persists(a) ==
    LET category == a.data.categories[a.input.selected_category + 1].name
        description ==
            IF a.input.description = <<>> THEN None ELSE Some(a.input.description)
        session ==
            [id |-> None, name |-> a.input.name, description |-> description,
             category |-> category, started_at |-> 0, ended_at |-> 0,
             duration_secs |-> 0]
    IN  [save_if_attached(a, session, TRUE) EXCEPT !.session_phase = Ready(session)]

\* App::create_session
create_session(a) ==
    LET category == a.data.categories[a.input.selected_category + 1].name
        description ==
            IF a.input.description = <<>> THEN None ELSE Some(a.input.description)
        session ==
            [id |-> None, name |-> a.input.name, description |-> description,
             category |-> category, started_at |-> 0, ended_at |-> 0,
             duration_secs |-> 0]
    IN  [a EXCEPT !.session_phase = Ready(session)]

\* Mutant of complete_session: the draft is saved with the times it was
\* created with.
complete_session_keeps_placeholders(a, n, ok) ==
    LET phase == a.session_phase IN
    IF phase.tag = "Active"
    THEN LET session ==
                 [phase.session EXCEPT
                    !.duration_secs = as_secs(a.timer.work_duration)]
             a1 == save_if_attached(a, session, ok)
         IN  [a1 EXCEPT !.session_phase = Ready(session)]
    ELSE a

\* Mutant of complete_session: the measured time is recorded, as in stop_session.
complete_session_measured(a, n, ok) ==
    LET phase == a.session_phase IN
    IF phase.tag = "Active"
    THEN LET session ==
                 [phase.session EXCEPT
                    !.started_at = phase.start_time,
                    !.ended_at = from_clock(n),
                    !.duration_secs = as_secs(elapsed(a.timer, n))]
             a1 == save_if_attached(a, session, ok)
         IN  [a1 EXCEPT !.session_phase = Ready(session)]
    ELSE a

\* Mutant of complete_session: the session is stored twice.
complete_session_saves_twice(a, n, ok) ==
    LET phase == a.session_phase IN
    IF phase.tag = "Active"
    THEN LET session ==
                 [phase.session EXCEPT
                    !.started_at = phase.start_time,
                    !.ended_at = from_clock(n),
                    !.duration_secs = as_secs(a.timer.work_duration)]
             a1 == save_if_attached(save_if_attached(a, session, ok), session, ok)
         IN  [a1 EXCEPT !.session_phase = Ready(session)]
    ELSE a

\* App::complete_session
complete_session(a, n, ok) ==
    LET phase == a.session_phase IN
    IF phase.tag = "Active"
    THEN LET session ==
                 [phase.session EXCEPT
                    !.started_at = phase.start_time,
                    !.ended_at = from_clock(n),
                    !.duration_secs = as_secs(a.timer.work_duration)]
             a1 == save_if_attached(a, session, ok)
         IN  [a1 EXCEPT !.session_phase = Ready(session)]
    ELSE a

\* Mutant of stop_session: the zero-elapsed guard is missing.
stop_session_no_zero_guard(a, n, ok) ==
    LET phase == a.session_phase
        elapsed_secs == as_secs(elapsed(a.timer, n))
    IN
    IF phase.tag # "Active" THEN a
    ELSE LET session ==
                 [phase.session EXCEPT
                    !.started_at = phase.start_time,
                    !.ended_at = from_clock(n),
                    !.duration_secs = elapsed_secs]
             a1 == save_if_attached(a, session, ok)
         IN  [a1 EXCEPT !.timer = reset(@), !.session_phase = Inactive]

\* Mutant of stop_session: the draft is retained, as after a completion.
stop_session_keeps_draft(a, n, ok) ==
    LET phase == a.session_phase
        elapsed_secs == as_secs(elapsed(a.timer, n))
    IN
    IF phase.tag # "Active" THEN a
    ELSE IF elapsed_secs = 0 THEN a
    ELSE LET session ==
                 [phase.session EXCEPT
                    !.started_at = phase.start_time,
                    !.ended_at = from_clock(n),
                    !.duration_secs = elapsed_secs]
             a1 == save_if_attached(a, session, ok)
         IN  [a1 EXCEPT !.timer = reset(@), !.session_phase = Ready(session)]

\* Mutant of stop_session: started_at is derived from the measured time.
stop_session_derives_start(a, n, ok) ==
    LET phase == a.session_phase
        elapsed_secs == as_secs(elapsed(a.timer, n))
    IN
    IF phase.tag # "Active" THEN a
    ELSE IF elapsed_secs = 0 THEN a
    ELSE LET session ==
                 [phase.session EXCEPT
                    !.started_at = from_clock(n) - elapsed_secs,
                    !.ended_at = from_clock(n),
                    !.duration_secs = elapsed_secs]
             a1 == save_if_attached(a, session, ok)
         IN  [a1 EXCEPT !.timer = reset(@), !.session_phase = Inactive]

\* Mutant of stop_session: the timer is not reset.
stop_session_keeps_running(a, n, ok) ==
    LET phase == a.session_phase
        elapsed_secs == as_secs(elapsed(a.timer, n))
    IN
    IF phase.tag # "Active" THEN a
    ELSE IF elapsed_secs = 0 THEN a
    ELSE LET session ==
                 [phase.session EXCEPT
                    !.started_at = phase.start_time,
                    !.ended_at = from_clock(n),
                    !.duration_secs = elapsed_secs]
             a1 == save_if_attached(a, session, ok)
         IN  [a1 EXCEPT !.session_phase = Inactive]
\* App::stop_session
stop_session(a, n, ok) ==
    LET phase == a.session_phase
        elapsed_secs == as_secs(elapsed(a.timer, n))
    IN
    IF phase.tag # "Active" THEN a
    ELSE IF elapsed_secs = 0 THEN a
    ELSE LET session ==
                 [phase.session EXCEPT
                    !.started_at = phase.start_time,
                    !.ended_at = from_clock(n),
                    !.duration_secs = elapsed_secs]
             a1 == save_if_attached(a, session, ok)
         IN  [a1 EXCEPT !.timer = reset(@), !.session_phase = Inactive]

\* Mutant of handle_tick: the next phase waits for the user to start it.
handle_tick_waits_for_user(a, n, ok) ==
    IF is_running(a.timer) /\ is_finished(a.timer, n)
    THEN LET a1 == IF a.timer.phase = "Work" THEN complete_session(a, n, ok) ELSE a
         IN  [a1 EXCEPT !.timer = advance_phase(@)]
    ELSE a

\* Mutant of handle_tick: the phase is advanced before the session is completed.
handle_tick_advances_first(a, n, ok) ==
    IF is_running(a.timer) /\ is_finished(a.timer, n)
    THEN LET a1 == [a EXCEPT !.timer = advance_phase(@)]
             a2 == IF a1.timer.phase = "Work" THEN complete_session(a1, n, ok) ELSE a1
         IN  [a2 EXCEPT !.timer = start(@, n)]
    ELSE a

\* App::handle_tick
handle_tick(a, n, ok) ==
    IF is_running(a.timer) /\ is_finished(a.timer, n)
    THEN LET a1 == IF a.timer.phase = "Work" THEN complete_session(a, n, ok) ELSE a
             a2 == [a1 EXCEPT !.timer = advance_phase(@)]
         IN  [a2 EXCEPT !.timer = start(@, n)]
    ELSE a

\* App::get_editing_field_value (i64 division truncates; the values are
\* never negative where it is called)
get_editing_field_value(a) ==
    LET c == a.settings.editing_config
        f == a.settings.field
    IN  CASE f = "WorkDuration" -> to_string(c.work_duration_secs \div 60)
          [] f = "ShortBreak" -> to_string(c.short_break_secs \div 60)
          [] f = "LongBreak" -> to_string(c.long_break_secs \div 60)
          [] f = "SessionsUntilLong" -> to_string(c.sessions_until_long_break)

\* Mutant of apply_editing_value: the value is written to the committed
\* configuration as well.
apply_editing_value_writes_through(a) ==
    LET parsed == parse_i64(a.settings.editing_value)
        f == a.settings.field
    IN  IF parsed.tag = "Ok" /\ parsed.value > 0
        THEN LET value == parsed.value IN
             CASE f = "WorkDuration" ->
                     [a EXCEPT !.settings.editing_config.work_duration_secs = value * 60,
                               !.data.config.work_duration_secs = value * 60]
               [] f = "ShortBreak" ->
                     [a EXCEPT !.settings.editing_config.short_break_secs = value * 60,
                               !.data.config.short_break_secs = value * 60]
               [] f = "LongBreak" ->
                     [a EXCEPT !.settings.editing_config.long_break_secs = value * 60,
                               !.data.config.long_break_secs = value * 60]
               [] f = "SessionsUntilLong" ->
                     [a EXCEPT
                        !.settings.editing_config.sessions_until_long_break = value,
                        !.data.config.sessions_until_long_break = value]
        ELSE a

\* App::apply_editing_value (value * 60 stays far below i64::MAX for the
\* numbers typed)
apply_editing_value(a) ==
    LET parsed == parse_i64(a.settings.editing_value)
        f == a.settings.field
    IN  IF parsed.tag = "Ok" /\ parsed.value > 0
        THEN LET value == parsed.value IN
             CASE f = "WorkDuration" ->
                     [a EXCEPT !.settings.editing_config.work_duration_secs = value * 60]
               [] f = "ShortBreak" ->
                     [a EXCEPT !.settings.editing_config.short_break_secs = value * 60]
               [] f = "LongBreak" ->
                     [a EXCEPT !.settings.editing_config.long_break_secs = value * 60]
               [] f = "SessionsUntilLong" ->
                     [a EXCEPT
                        !.settings.editing_config.sessions_until_long_break = value]
        ELSE a

\* Mutant of commit_settings: the timer is not given the new configuration.
commit_settings_skips_timer(a, ok) ==
    LET config == a.settings.editing_config
        a1 == [a EXCEPT !.data.config = config]
    IN  IF a1.db.tag = "Some"
        THEN LET handed == [a1 EXCEPT !.config_written = Append(@, config)] IN
             IF ok THEN handed
             ELSE notify(handed, "Warning", "Failed to save settings")
        ELSE a1

\* The edit buffer is committed: data.config, the timer, and the database when
\* one is attached (ok = FALSE: db.save_config fails).
commit_settings(a, ok) ==
    LET config == a.settings.editing_config
        a1 == [a EXCEPT !.data.config = config, !.timer = apply_config(@, config)]
    IN  IF a1.db.tag = "Some"
        THEN LET handed == [a1 EXCEPT !.config_written = Append(@, config)] IN
             IF ok THEN handed
             ELSE notify(handed, "Warning", "Failed to save settings")
        ELSE a1

\* Mutant of save_settings: the edit buffer is committed without is_valid.
save_settings_unvalidated(a, ok) == commit_settings(apply_editing_value(a), ok)

\* App::save_settings
save_settings(a, ok) ==
    LET a1 == apply_editing_value(a) IN
    IF ~is_valid(a1.settings.editing_config)
    THEN notify(a1, "Warning", "Invalid settings: all values must be positive")
    ELSE commit_settings(a1, ok)

\* App::handle_timer_settings_key
handle_timer_settings_key(a, key, ok) ==
    CASE key = "Esc" -> [a EXCEPT !.modal = "None"]
      [] key \in {"Tab", "Down"} ->
            LET a1 == apply_editing_value(a)
                a2 == [a1 EXCEPT !.settings.field = SettingsFieldNext(@)]
            IN  [a2 EXCEPT !.settings.editing_value = get_editing_field_value(a2)]
      [] key = "Up" ->
            LET a1 == apply_editing_value(a)
                a2 == [a1 EXCEPT !.settings.field = SettingsFieldPrev(@)]
            IN  [a2 EXCEPT !.settings.editing_value = get_editing_field_value(a2)]
      [] key = "Enter" -> [save_settings(a, ok) EXCEPT !.modal = "None"]
      [] key = "Backspace" -> [a EXCEPT !.settings.editing_value = bounded_pop(@)]
      [] is_ascii_digit(key) ->
            [a EXCEPT !.settings.editing_value = Append(@, key)]
      [] OTHER -> a

\* App::handle_category_list_key, for the keys pressed: the arms of 'n', 'e'
\* and 'd', which open the category form or delete a category, are not among
\* them.
handle_category_list_key(a, key) ==
    LET len == Len(a.data.categories) IN
    CASE key = "Esc" -> [a EXCEPT !.modal = "None"]
      [] key \in {"j", "Down"} ->
            IF len > 0
            THEN [a EXCEPT !.settings.category_list_index = (@ + 1) % len]
            ELSE a
      [] key \in {"k", "Up"} ->
            IF len > 0
            THEN IF a.settings.category_list_index = 0
                 THEN [a EXCEPT !.settings.category_list_index = len - 1]
                 ELSE [a EXCEPT !.settings.category_list_index = @ - 1]
            ELSE a
      [] OTHER -> a

\* App::handle_category_settings_key, while the category list is shown
handle_category_settings_key(a, key) ==
    CASE a.settings.category_field = "List" -> handle_category_list_key(a, key)

\* App::handle_settings_modal_key
handle_settings_modal_key(a, key, ok) ==
    IF a.settings.category_field = "List" /\ key = "1"
    THEN [a EXCEPT !.settings.mode = "Timer"]
    ELSE IF a.settings.category_field = "List" /\ key = "2"
    THEN [a EXCEPT !.settings.mode = "Categories"]
    ELSE CASE a.settings.mode = "Timer" -> handle_timer_settings_key(a, key, ok)
           [] a.settings.mode = "Categories" -> handle_category_settings_key(a, key)

\* App::handle_timer_key, for the keys pressed
handle_timer_key(a, key, n, ok) ==
    CASE key = "s" ->
            IF is_break(a.timer.phase) THEN [a EXCEPT !.timer = skip_break(@)]
            ELSE IF is_paused(a.timer) THEN [a EXCEPT !.timer = start(@, n)]
            ELSE IF is_idle(a.timer) /\ has_session(a) THEN start_timer(a, n)
            ELSE a
      [] key = "p" ->
            IF is_running(a.timer) THEN [a EXCEPT !.timer = pause(@, n)] ELSE a
      [] key = "r" -> [a EXCEPT !.timer = reset(@)]
      [] key = "x" ->
            IF is_running(a.timer) \/ is_paused(a.timer)
            THEN stop_session(a, n, ok) ELSE a
      [] key = "n" ->
            [a EXCEPT !.modal = "Input",
                      !.input = [field |-> "Name", name |-> <<>>,
                                 description |-> <<>>, selected_category |-> 0]]
      [] key = "c" ->
            LET a1 == [a EXCEPT !.modal = "Settings",
                                !.settings.field = "WorkDuration",
                                !.settings.editing_config = a.data.config]
            IN  [a1 EXCEPT !.settings.editing_value = get_editing_field_value(a1)]
      [] OTHER -> a

\* App::handle_input_modal_key
handle_input_modal_key(a, key, n) ==
    CASE key = "Esc" -> [a EXCEPT !.modal = "None"]
      [] key = "Tab" -> [a EXCEPT !.input.field = InputFieldNext(@)]
      [] key = "Enter" ->
            IF validate_session_name(a.input.name)
            THEN start_timer([create_session(a) EXCEPT !.modal = "None"], n)
            ELSE a
      [] key = "Backspace" ->
            (CASE a.input.field = "Name" -> [a EXCEPT !.input.name = bounded_pop(@)]
               [] a.input.field = "Description" ->
                     [a EXCEPT !.input.description = bounded_pop(@)]
               [] a.input.field = "Category" -> a)
      [] key = "Left" ->
            IF a.input.field = "Category"
            THEN IF a.input.selected_category = 0
                 THEN [a EXCEPT !.input.selected_category = Len(a.data.categories) - 1]
                 ELSE [a EXCEPT !.input.selected_category = @ - 1]
            ELSE a
      [] key = "Right" ->
            IF a.input.field = "Category"
            THEN [a EXCEPT !.input.selected_category =
                               (@ + 1) % Len(a.data.categories)]
            ELSE a
      [] IsChar(key) ->
            (CASE a.input.field = "Name" ->
                     [a EXCEPT !.input.name = bounded_push(NAME_MAX, @, key)]
               [] a.input.field = "Description" ->
                     [a EXCEPT !.input.description =
                                   bounded_push(DESCRIPTION_MAX, @, key)]
               [] a.input.field = "Category" -> a)
      [] OTHER -> a

\* ------------------------------------------------------------ history
\* Seconds in a day (the `24 * 60 * 60` of refresh_data).
SecsPerDay == 24 * 60 * 60

\* Session::start_datetime and the (year, month, day) taken from it: the
\* calendar day of an epoch second, with local time read as UTC.
start_date(session) == session.started_at \div SecsPerDay

\* queries::get_sessions_in_range: the rows that started in [start_, end_),
\* ordered by started_at, latest first, each with its id as Some(id).
RECURSIVE order_by_started_at_desc(_)
order_by_started_at_desc(rows) ==
    IF rows = {} THEN <<>>
    ELSE LET first == CHOOSE r \in rows :
                          \A q \in rows : q.started_at <= r.started_at
         IN  <<[first EXCEPT !.id = Some(first.id)]>>
             \o order_by_started_at_desc(rows \ {first})

get_sessions_in_range(rows, start_, end_) ==
    order_by_started_at_desc(
        {r \in rows : r.started_at >= start_ /\ r.started_at < end_})

\* queries::delete_session: DELETE FROM sessions WHERE id = ?1
delete_session(rows, id) == {r \in rows : r.id # id}

\* The loop of count_history_list_items from session i on, current_date
\* being the date of the header last counted.
RECURSIVE count_from(_, _, _)
count_from(sessions, i, current_date) ==
    IF i > Len(sessions) THEN 0
    ELSE LET date == start_date(sessions[i])
             header == IF current_date # Some(date) THEN 1 ELSE 0
         IN  header + 1 + count_from(sessions, i + 1, Some(date))

\* App::count_history_list_items
count_history_list_items(sessions) ==
    LET count == count_from(sessions, 1, None) IN
    IF count > 1 THEN count ELSE 1

\* The loop of build_history_items from session i on.
RECURSIVE items_from(_, _, _)
items_from(sessions, i, current_date) ==
    IF i > Len(sessions) THEN <<>>
    ELSE LET date == start_date(sessions[i])
             header == IF current_date # Some(date)
                       THEN <<[kind |-> "header", date |-> date]>>
                       ELSE <<>>
         IN  header \o <<[kind |-> "session", session |-> sessions[i]]>>
                    \o items_from(sessions, i + 1, Some(date))

\* ui::history::build_history_items: the rows of the rendered list
build_history_items(sessions) ==
    LET items == items_from(sessions, 1, None) IN
    IF items = <<>> THEN <<[kind |-> "empty"]>> ELSE items

\* App::refresh_data, the sessions of the history view
refresh_data(a, n) ==
    IF a.db.tag = "Some"
    THEN LET now_ == now_timestamp(n)
             thirty_days_ago == now_ - 30 * SecsPerDay
         IN  [a EXCEPT !.data.sessions =
                           get_sessions_in_range(a.table, thirty_days_ago, now_)]
    ELSE a

\* App::handle_history_key; ok is the result of db.delete_session. Indices
\* count from 0 as in the source, sequences from 1.
handle_history_key(a, key, n, ok) ==
    LET selected == a.data.history_state
        len == count_history_list_items(a.data.sessions)
    IN
    CASE key \in {"j", "Down"} ->
            IF len > 0
            THEN [a EXCEPT !.data.history_state =
                      IF selected.tag = "Some"
                      THEN Some((selected.value + 1) % len) ELSE Some(0)]
            ELSE a
      [] key \in {"k", "Up"} ->
            IF len > 0
            THEN [a EXCEPT !.data.history_state =
                      IF selected.tag = "Some"
                      THEN Some(IF selected.value = 0 THEN len - 1
                                ELSE selected.value - 1)
                      ELSE Some(0)]
            ELSE a
      [] key = "d" ->
            IF /\ selected.tag = "Some"
               /\ selected.value < Len(a.data.sessions)
               /\ a.data.sessions[selected.value + 1].id.tag = "Some"
               /\ a.db.tag = "Some"
            THEN LET id == a.data.sessions[selected.value + 1].id.value
                     called == [a EXCEPT !.deleted = Append(@, id)]
                     a1 == IF ok
                           THEN [called EXCEPT !.table = delete_session(@, id)]
                           ELSE notify(called, "Warning", "Failed to delete session")
                 IN  refresh_data(a1, n)
            ELSE a
      [] OTHER -> a

\* Mutant of handle_key_event: the pending notification is not cleared.
handle_key_event_keeps_notification(a, key, n, ok) ==
    CASE a.modal = "Settings" -> handle_settings_modal_key(a, key, ok)
      [] a.modal = "Input" -> handle_input_modal_key(a, key, n)
      [] a.modal = "None" /\ key \in {"q", "Esc"} -> quit(a)
      [] a.modal = "None" /\ key = "Tab" -> [a EXCEPT !.view = "Timer"]
      [] a.modal = "None" /\ key = "h" /\ a.view # "History" ->
            refresh_data([a EXCEPT !.view = "History"], n)
      [] a.modal = "None" /\ key \notin {"q", "Esc", "Tab", "h"} /\ a.view = "Timer" ->
            handle_timer_key(a, key, n, ok)
      [] a.modal = "None" /\ key \notin {"q", "Esc", "Tab"} /\ a.view = "History" ->
            handle_history_key(a, key, n, ok)

\* App::handle_key_event, for the keys of the timer view, the history view,
\* the input modal and the settings modal
handle_key_event(a, key, n, ok) ==
    LET a0 == [a EXCEPT !.notification = None] IN
    CASE a0.modal = "Settings" -> handle_settings_modal_key(a0, key, ok)
      [] a0.modal = "Input" -> handle_input_modal_key(a0, key, n)
      [] a0.modal = "None" /\ key \in {"q", "Esc"} -> quit(a0)
      [] a0.modal = "None" /\ key = "Tab" -> [a0 EXCEPT !.view = "Timer"]
      [] a0.modal = "None" /\ key = "h" /\ a0.view # "History" ->
            refresh_data([a0 EXCEPT !.view = "History"], n)
      [] a0.modal = "None" /\ key \notin {"q", "Esc", "Tab", "h"} /\ a0.view = "Timer" ->
            handle_timer_key(a0, key, n, ok)
      [] a0.modal = "None" /\ key \notin {"q", "Esc", "Tab"} /\ a0.view = "History" ->
            handle_history_key(a0, key, n, ok)

\* --------------------------------------------------------- observations
\* Time spent Running since the run-state last left Idle, after a step that
\* lets d units pass and leaves the timer as t2.
RanAfter(t1, t2, d) ==
    IF t2.state.tag = "Idle" THEN 0
    ELSE IF t1.state.tag = "Running" THEN ranFor + d
    ELSE ranFor

\* What elapsed() returned when pause() last took effect, after a step from t1
\* to t2 at the instant now (0 while the timer is not Paused).
CapturedAfter(t1, t2) ==
    IF t2.state.tag # "Paused" THEN 0
    ELSE IF t1.state.tag = "Running" THEN elapsed(t1, now)
    ELSE captured

\* App::default(), the fields besides the timer
AppFieldsDefault ==
    /\ session_phase = Inactive
    /\ modal = "None"
    /\ view = "Timer"
    /\ input = InputDefault
    /\ data = [categories |-> DefaultCategories, config |-> ConfigDefault,
                 sessions |-> <<>>, history_state |-> None]
    /\ notification = None
    /\ running = FALSE
    /\ db = None
    /\ saved = <<>>
    /\ settings = SettingsDefault
    /\ config_written = <<>>
    /\ bounded = <<>>
    /\ given = <<>>
    /\ table = {}
    /\ deleted = <<>>

\* ------------------------------------------------------- engine harness
\* The timer as App::new() leaves it: new(), then apply_config with the
\* configuration of the database when there is one.
TimerAtStart == {NewTimer} \cup {apply_config(NewTimer, c) : c \in HarnessConfigs}

TimerInit ==
    /\ now = 0
    /\ timer \in TimerAtStart
    /\ AppFieldsDefault
    /\ last = "init"
    /\ ranFor = 0
    /\ captured = 0
    /\ durBefore = current_phase_duration(timer)
    /\ works = 0
    /\ thresholdChanged = FALSE

\* A call of a timer operation that yields t2 without time passing.
TimerCall(label, t2) ==
    /\ timer' = t2
    /\ last' = label
    /\ ranFor' = RanAfter(timer, t2, 0)
    /\ captured' = CapturedAfter(timer, t2)
    /\ durBefore' = current_phase_duration(timer)
    /\ thresholdChanged' =
          (thresholdChanged \/ t2.sessions_until_long # timer.sessions_until_long)
    /\ UNCHANGED <<now, appvars, strvars, histvars>>

TimerStart == TimerCall("start", start(timer, now)) /\ UNCHANGED works
TimerPause == TimerCall("pause", pause(timer, now)) /\ UNCHANGED works
TimerReset == TimerCall("reset", reset(timer)) /\ UNCHANGED works
TimerSkipBreak == TimerCall("skip_break", skip_break(timer)) /\ UNCHANGED works
TimerApplyConfig ==
    \E c \in HarnessConfigs :
        TimerCall("apply_config", apply_config(timer, c)) /\ UNCHANGED works
TimerAdvancePhase ==
    TimerCall("advance_phase", advance_phase(timer)) /\ UNCHANGED works

\* Instant::now() moves forward by d units.
Pass(d) ==
    /\ now' = now + d
    /\ last' = "time"
    /\ ranFor' = RanAfter(timer, timer, d)
    /\ durBefore' = current_phase_duration(timer)
    /\ saved' = <<>>
    /\ config_written' = <<>>
    /\ UNCHANGED <<timer, captured, works, thresholdChanged, strvars, histvars>>
    /\ UNCHANGED <<session_phase, modal, view, input, data, notification, running, db,
                   settings>>

\* Time passes, by up to a second at a time, within the clock horizon.
TimePasses == \E d \in 1..UnitsPerSec : now + d <= MaxNow /\ Pass(d)

\* The engine driven through its public operations, in any order, as time passes.
TimerNext ==
    \/ TimerStart
    \/ TimerPause
    \/ TimerReset
    \/ TimerSkipBreak
    \/ TimerApplyConfig
    \/ TimerAdvancePhase
    \/ TimePasses

TimerSpec == TimerInit /\ [][TimerNext]_vars

\* The phase cycle: the same operations with the work completions counted and
\* no time passing (none of them but start and pause reads the clock).
CycleAdvancePhase ==
    /\ timer.phase = "Work" => works < MaxWorks
    /\ TimerCall("advance_phase", advance_phase(timer))
    /\ works' = IF timer.phase = "Work" THEN works + 1 ELSE works

CycleNext ==
    \/ TimerStart
    \/ TimerPause
    \/ TimerReset
    \/ TimerSkipBreak
    \/ TimerApplyConfig
    \/ CycleAdvancePhase

CycleSpec == TimerInit /\ [][CycleNext]_vars

\* The completed-session counter at the width of its type: the engine driven
\* with configurations whose threshold is at and beyond the range of a u8.
\* The configuration is committed and then applied, as save_settings does.
WideConfigs ==
    { [work_duration_secs |-> 3, short_break_secs |-> 1, long_break_secs |-> 2,
       sessions_until_long_break |-> n] : n \in {2, U8Modulus - 1, U8Modulus} }

CounterInit == TimerInit /\ timer = NewTimer

CounterApplyConfig ==
    \E c \in WideConfigs :
        /\ data' = [data EXCEPT !.config = c]
        /\ timer' = apply_config(timer, c)
        /\ last' = "apply_config"
        /\ ranFor' = RanAfter(timer, timer', 0)
        /\ captured' = CapturedAfter(timer, timer')
        /\ durBefore' = current_phase_duration(timer)
        /\ thresholdChanged' =
              (thresholdChanged \/ timer'.sessions_until_long # timer.sessions_until_long)
        /\ UNCHANGED <<now, works, strvars, histvars>>
        /\ UNCHANGED <<session_phase, modal, view, input, notification, running, db,
                       saved, settings, config_written>>

CounterNext ==
    \/ TimerStart
    \/ TimerReset
    \/ TimerSkipBreak
    \/ CounterApplyConfig
    \/ TimerAdvancePhase

CounterSpec == CounterInit /\ [][CounterNext]_vars

\* Every operation of the engine, at the width of the counter: the operations
\* of CounterSpec together with pause and the passing of time, within a clock
\* horizon of its own.
TotalTimePasses == \E d \in 1..UnitsPerSec : now + d <= MaxTotalNow /\ Pass(d)

TotalNext ==
    \/ TimerStart
    \/ TimerPause
    \/ TimerReset
    \/ TimerSkipBreak
    \/ CounterApplyConfig
    \/ TimerAdvancePhase
    \/ TotalTimePasses

TotalSpec == CounterInit /\ [][TotalNext]_vars

\* The BoundedString: a BoundedString<BoundedMax> driven through from_string,
\* push, pop and clear, with characters of 1 to 4 bytes.
StringChars == {"a"} \cup MultiByteChars

\* The strings given to from_string: up to MaxSourceLen characters.
SourceStrings == UNION { [1..k -> StringChars] : k \in 0..MaxSourceLen }

BoundedInit == TimerInit /\ timer = NewTimer

\* A call on the BoundedString with argument arg that leaves the content s.
BoundedCall(label, arg, s) ==
    /\ bounded' = s
    /\ given' = arg
    /\ last' = label
    /\ UNCHANGED <<now, timer, appvars, histvars>>
    /\ UNCHANGED <<ranFor, captured, durBefore, works, thresholdChanged>>

BoundedFromString ==
    \E s \in SourceStrings : BoundedCall("from_string", s, from_string(BoundedMax, s))

BoundedPush ==
    \E c \in StringChars : BoundedCall("push", <<c>>, bounded_push(BoundedMax, bounded, c))

BoundedPop == BoundedCall("pop", <<>>, bounded_pop(bounded))

BoundedClear == BoundedCall("clear", <<>>, bounded_clear(bounded))

BoundedNext == BoundedFromString \/ BoundedPush \/ BoundedPop \/ BoundedClear

BoundedSpec == BoundedInit /\ [][BoundedNext]_vars

\* ------------------------------------------------------------ application
\* App::new() followed by the first line of run(): with a database, its
\* configuration is applied to the timer; without one, a warning is shown.
AppAtStartWith(Stored, Tables) ==
    /\ now = 0
    /\ session_phase = Inactive
    /\ modal = "None"
    /\ view = "Timer"
    /\ input = InputDefault
    /\ running = TRUE
    /\ saved = <<>>
    /\ settings = SettingsDefault
    /\ config_written = <<>>
    /\ bounded = <<>>
    /\ given = <<>>
    /\ table \in Tables
    /\ deleted = <<>>
    /\ \/ /\ db = Some("database")
          /\ \E c \in Stored :
                /\ timer = apply_config(NewTimer, c)
                /\ data = [categories |-> DefaultCategories, config |-> c,
                          sessions |-> <<>>, history_state |-> None]
          /\ notification = None
       \/ /\ db = None
          /\ timer = NewTimer
          /\ data = [categories |-> DefaultCategories, config |-> ConfigDefault,
                 sessions |-> <<>>, history_state |-> None]
          /\ notification =
                Some([message |-> "Running without database", level |-> "Warning"])
    /\ last = "init"
    /\ ranFor = 0
    /\ captured = 0
    /\ durBefore = current_phase_duration(timer)
    /\ works = 0
    /\ thresholdChanged = FALSE

\* The same with the sessions table empty.
AppAtStart(Stored) == AppAtStartWith(Stored, {{}})

Init == AppAtStart(StoredConfigs \cup {ConfigDefault})

\* The handler of one event has turned the App into a.
Commit(a, label) ==
    /\ timer' = a.timer
    /\ session_phase' = a.session_phase
    /\ modal' = a.modal
    /\ view' = a.view
    /\ input' = a.input
    /\ data' = a.data
    /\ notification' = a.notification
    /\ running' = a.running
    /\ db' = a.db
    /\ saved' = a.saved
    /\ settings' = a.settings
    /\ config_written' = a.config_written
    /\ table' = a.table
    /\ deleted' = a.deleted
    /\ last' = label
    /\ ranFor' = RanAfter(timer, a.timer, 0)
    /\ captured' = CapturedAfter(timer, a.timer)
    /\ durBefore' = current_phase_duration(timer)
    /\ UNCHANGED <<now, works, thresholdChanged, strvars>>

\* The keys pressed: the commands of the timer view, and in the input modal
\* the characters of a name, Enter, Esc and Backspace.
Keys == {"s", "p", "r", "x", "n", "a", " ", "Enter", "Esc", "Backspace"}

\* The names the user types into the input modal: empty, blank, or valid.
TypedNames == {<<>>, <<" ">>, <<"a">>}

\* What the user types into the input modal: a character of TypedChars that
\* extends the name to one of TypedNames.
Typeable(key) ==
    (modal = "Input" /\ IsChar(key)) =>
        /\ key \in TypedChars
        /\ input.field = "Name" => Append(input.name, key) \in TypedNames

\* The results db.save_session and db.save_config can return (TRUE for Ok,
\* FALSE for Err), when a handler can reach the call at all.
SaveResults ==
    IF db.tag = "Some" /\ (session_phase.tag = "Active" \/ modal = "Settings")
    THEN BOOLEAN ELSE {TRUE}

\* run(): poll_event returned AppEvent::Key(key); ok is the result of the
\* database write the handler may make.
KeyEvent ==
    /\ running
    /\ \E key \in Keys, ok \in SaveResults :
          /\ Typeable(key)
          /\ Commit(handle_key_event(Self, key, now, ok), key)

\* run(): poll_event returned AppEvent::Tick.
Tick ==
    /\ running
    /\ \E ok \in SaveResults : Commit(handle_tick(Self, now, ok), "tick")

\* Time passes while run() waits in poll_event.
Wait == running /\ TimePasses

\* The program is left alone for the length of a default work phase, once:
\* followed where the timer has the default work duration, which no shorter
\* wait within the horizon completes.
LongWait ==
    /\ running
    /\ now <= MaxNow
    /\ timer.work_duration = from_secs(DEFAULT_WORK_SECS)
    /\ Pass(from_secs(DEFAULT_WORK_SECS))

Next == KeyEvent \/ Tick \/ Wait \/ LongWait

Spec == Init /\ [][Next]_vars

\* The event loop as it is scheduled: while self.running, every iteration of
\* run() returns from poll_event within the tick timeout and handles what it
\* returned, so the loop keeps taking steps.  Which step is not the loop's
\* choice: poll_event returns Tick only when no terminal event arrived during
\* the whole timeout, so no fairness of Tick is stated.
LoopSpec == Init /\ [][Next]_vars /\ WF_vars(Next)

\* The end-to-end scenario: from the initial state the user opens the input
\* modal, types a name and presses Enter; then nothing but time and ticks,
\* until the tick that completes the work phase.
ScenarioKey ==
    /\ running
    /\ session_phase.tag = "Inactive"
    /\ \E key \in {"n", "a", " ", "Backspace", "Enter"} :
          /\ modal = "None" <=> key = "n"
          /\ Typeable(key)
          /\ Commit(handle_key_event(Self, key, now, TRUE), key)

ScenarioTick == session_phase.tag # "Ready" /\ Tick

ScenarioWait == session_phase.tag # "Ready" /\ Wait

ScenarioLongWait == session_phase.tag # "Ready" /\ LongWait

ScenarioNext == ScenarioKey \/ ScenarioTick \/ ScenarioWait \/ ScenarioLongWait

ScenarioSpec == Init /\ [][ScenarioNext]_vars

\* The settings modal.  A configuration the database can hold that is not
\* valid (db.get_config returns the stored numbers as they are).
InvalidStoredConfig ==
    [work_duration_secs |-> 0, short_break_secs |-> DEFAULT_SHORT_BREAK_SECS,
     long_break_secs |-> DEFAULT_LONG_BREAK_SECS,
     sessions_until_long_break |-> SESSIONS_UNTIL_LONG_BREAK]

\* The program starts with the default configuration, stored or not, or with
\* the invalid one.
SettingsInit == AppAtStart({ConfigDefault, InvalidStoredConfig})

\* The keys pressed: 'c' opens the modal; digits, Backspace, the keys that
\* move between the fields, Enter and Esc; '1' and '2' switch its mode.
SettingsKeys == {"c", "0", "1", "2", "3", "Backspace", "Tab", "Up", "Enter", "Esc"}

\* What the user types into a field of the timer settings, once it is empty:
\* zero or the number three.
TypedValues == {<<"0">>, <<"3">>}

\* A digit that reaches the edited value extends it to one of TypedValues.
SettingsTypeable(key) ==
    (/\ modal = "Settings"
     /\ settings.mode = "Timer"
     /\ is_ascii_digit(key)
     /\ ~(settings.category_field = "List" /\ key \in {"1", "2"})) =>
        Append(settings.editing_value, key) \in TypedValues

\* In the category list the selection is moved off the first category only.
SettingsBrowsable(key) ==
    (modal = "Settings" /\ settings.mode = "Categories" /\ key = "Up") =>
        settings.category_list_index = 0

\* run(): poll_event returned AppEvent::Key(key), for a key of SettingsKeys.
SettingsKey ==
    /\ running
    /\ \E key \in SettingsKeys, ok \in SaveResults :
          /\ modal = "None" => key \in {"c", "Esc"}
          /\ SettingsTypeable(key)
          /\ SettingsBrowsable(key)
          /\ Commit(handle_key_event(Self, key, now, ok), key)

SettingsNext == SettingsKey

SettingsSpec == SettingsInit /\ [][SettingsNext]_vars

\* The program left alone: started on a database, the user has created and
\* started a session at instant 0 ('n', a name, Enter), and from then on
\* poll_event returns nothing but ticks while time passes.
UnattendedInit ==
    /\ now = 0
    /\ modal = "None"
    /\ view = "Timer"
    /\ input = [InputDefault EXCEPT !.name = <<"a">>]
    /\ running = TRUE
    /\ saved = <<>>
    /\ settings = SettingsDefault
    /\ config_written = <<>>
    /\ bounded = <<>>
    /\ given = <<>>
    /\ table = {}
    /\ deleted = <<>>
    /\ notification = None
    /\ db = Some("database")
    /\ \E c \in StoredConfigs \cup {ConfigDefault} :
          /\ timer = start(apply_config(NewTimer, c), 0)
          /\ data = [categories |-> DefaultCategories, config |-> c,
                     sessions |-> <<>>, history_state |-> None]
    /\ session_phase =
          start_timer(create_session([input |-> input, data |-> data,
                                      session_phase |-> Inactive, timer |-> timer]),
                      0).session_phase
    /\ last = "Enter"
    /\ ranFor = 0
    /\ captured = 0
    /\ durBefore = current_phase_duration(timer)
    /\ works = 0
    /\ thresholdChanged = FALSE

\* run(): poll_event returned AppEvent::Tick. An Instant is read only through
\* Instant::elapsed, the time since it was taken: when the tick has started
\* the next phase, the instant of that start is the only one the program
\* holds, and the clock is counted from it again.
UnattendedTick ==
    /\ running
    /\ \E ok \in SaveResults :
          LET a == handle_tick(Self, now, ok)
              fired == is_running(timer) /\ is_finished(timer, now)
          IN  /\ timer' = IF fired /\ is_running(a.timer)
                           THEN [a.timer EXCEPT !.state.started = @ - now]
                           ELSE a.timer
              /\ now' = IF fired THEN 0 ELSE now
              /\ session_phase' = a.session_phase
              /\ notification' = a.notification
              /\ saved' = a.saved
              /\ ranFor' = IF fired THEN 0 ELSE ranFor
              /\ last' = "tick"
              /\ durBefore' = current_phase_duration(timer)
              /\ UNCHANGED <<modal, view, input, data, running, db, settings,
                             config_written>>
              /\ UNCHANGED <<captured, works, thresholdChanged, strvars, histvars>>

\* Time passes while run() waits in poll_event, which returns a tick within
\* TICK_RATE of the phase finishing.
UnattendedWait ==
    /\ running
    /\ ~is_finished(timer, now)
    /\ \E d \in 1..UnitsPerSec : Pass(d)

UnattendedNext == UnattendedTick \/ UnattendedWait

\* poll_event returns AppEvent::Tick whenever no terminal event arrives within
\* TICK_RATE, which is always when the user does nothing; and the clock moves.
UnattendedSpec ==
    /\ UnattendedInit
    /\ [][UnattendedNext]_vars
    /\ WF_vars(UnattendedTick)
    /\ WF_vars(UnattendedWait)

\* The history view: the program starts on a database that holds sessions of
\* earlier runs, and the user opens the history view, moves the selection and
\* deletes.
StoredSession(id, started_at) ==
    [id |-> id, name |-> <<"a">>, description |-> None, category |-> "work",
     started_at |-> started_at, ended_at |-> started_at + 1, duration_secs |-> 1]

\* Two sessions of the day the program starts on, two of the day before, and
\* one older than the thirty days the history view shows.
StoredSessions ==
    { StoredSession(1, EpochAtStart - 10),
      StoredSession(2, EpochAtStart - 20),
      StoredSession(3, EpochAtStart - SecsPerDay),
      StoredSession(4, EpochAtStart - SecsPerDay - 30),
      StoredSession(5, EpochAtStart - 31 * SecsPerDay) }

HistoryInit == AppAtStartWith({ConfigDefault}, SUBSET StoredSessions) /\ db # None

HistoryKeys == {"h", "j", "k", "d", "Tab"}

\* run(): poll_event returned AppEvent::Key(key); ok is the result of
\* db.delete_session.
HistoryKey ==
    /\ running
    /\ \E key \in HistoryKeys, ok \in BOOLEAN :
          /\ key # "d" => ok
          /\ Commit(handle_key_event(Self, key, now, ok), key)

HistoryNext == HistoryKey

HistorySpec == HistoryInit /\ [][HistoryNext]_vars

\* ==================================================================== claims

\* ---------------------------------------------------------------- C1
\* A step that calls advance_phase() in the Work phase follows the counting rule.
C1_RuleStep ==
    (last' = "advance_phase" /\ timer.phase = "Work") =>
        LET incremented == timer.sessions_completed + 1 IN
        IF incremented >= timer.sessions_until_long
        THEN timer'.phase = "LongBreak" /\ timer'.sessions_completed = 0
        ELSE timer'.phase = "ShortBreak" /\ timer'.sessions_completed = incremented

\* The state right after a work completion (advance_phase left the Work phase).
C1_AfterWorkCompletion == last = "advance_phase" /\ timer.phase # "Work"

\* While the threshold N >= 1 is the one the timer started with, the k-th work
\* completion enters LongBreak exactly when k is a multiple of N.
C1_KthCompletion ==
    (C1_AfterWorkCompletion /\ ~thresholdChanged /\ timer.sessions_until_long >= 1) =>
        /\ timer.phase = "LongBreak" <=> works % timer.sessions_until_long = 0
        /\ timer.phase = "ShortBreak" <=> works % timer.sessions_until_long # 0
        /\ timer.phase = "LongBreak" => timer.sessions_completed = 0

\* C1: Long-break counting rule. advance_phase() in the Work phase increments
\* sessions_completed; if the incremented counter is >= sessions_until_long the
\* phase becomes LongBreak and the counter 0, otherwise ShortBreak. From Work
\* with counter 0 and an unchanged threshold N >= 1 the k-th work completion
\* yields LongBreak exactly when k is a multiple of N, with counter 0 after it.
C1_LongBreakCountingRule == [][C1_RuleStep]_vars /\ []C1_KthCompletion

\* C1 witness: the second long break of a cycle with the default threshold 4,
\* entered by the 8th work completion.
C1_Witness ==
    /\ C1_AfterWorkCompletion
    /\ ~thresholdChanged
    /\ timer.sessions_until_long = SESSIONS_UNTIL_LONG_BREAK
    /\ works = 2 * SESSIONS_UNTIL_LONG_BREAK
    /\ timer.phase = "LongBreak"

\* ---------------------------------------------------------------- C6
\* A step of time passing, or a start() while Running, on a Running timer.
C6_RunningStep ==
    (is_running(timer) /\ last' \in {"time", "start"}) =>
        /\ is_running(timer')
        /\ elapsed(timer', now') >= elapsed(timer, now)

\* A step of time passing, or a pause() while Paused, on a Paused timer.
C6_PausedStep ==
    (is_paused(timer) /\ last' \in {"time", "pause"}) =>
        /\ is_paused(timer')
        /\ elapsed(timer', now') = elapsed(timer, now)

\* While Paused, elapsed() is the value captured at pause().
C6_PausedFrozen == is_paused(timer) => elapsed(timer, now) = captured

\* C6: Elapsed monotonicity. Between observations separated only by time
\* passing and no-op calls (start while Running, pause while Paused), elapsed()
\* never decreases while Running, and while Paused it stays equal to the value
\* captured at pause() however much time passes.
C6_ElapsedMonotonic ==
    [][C6_RunningStep /\ C6_PausedStep]_vars /\ []C6_PausedFrozen

\* C6 witness: a timer paused after running for a while, with time having
\* passed since the pause.
C6_Witness ==
    /\ is_paused(timer)
    /\ last = "time"
    /\ captured > 0
    /\ now > captured

\* ---------------------------------------------------------------- C7
\* pause() does not change what elapsed() returns.
C7_PauseStep ==
    last' = "pause" => elapsed(timer', now') = elapsed(timer, now)

\* start() from Paused resumes from the stored value.
C7_ResumeStep ==
    (last' = "start" /\ is_paused(timer)) =>
        /\ timer'.state = Running(now, timer.state.elapsed)
        /\ elapsed(timer', now') = elapsed(timer, now)

\* elapsed() is the sum of the Running intervals since the run-state left Idle.
C7_SumOfRunningIntervals == ~is_idle(timer) => elapsed(timer, now) = ranFor

\* C7: Pause/resume conservation. elapsed() right after pause() equals
\* elapsed() right before it; start() from Paused resumes with
\* elapsed_before_pause equal to the stored value; over any number of
\* pause/resume cycles in one phase elapsed() is the sum of the Running
\* intervals and is never reset by pausing or resuming.
C7_PauseResumeConservation ==
    [][C7_PauseStep /\ C7_ResumeStep]_vars /\ []C7_SumOfRunningIntervals

\* C7 witness: a resumed timer in its second Running interval, with time
\* accumulated both before the pause and after the resume.
C7_Witness ==
    /\ is_running(timer)
    /\ timer.state.elapsed_before_pause > 0
    /\ now > timer.state.started
    /\ last = "time"

\* ---------------------------------------------------------------- C8
\* reset(), advance_phase() and a skip_break() in a break leave the timer Idle
\* with elapsed() zero.
C8_ToIdleStep ==
    (\/ last' \in {"reset", "advance_phase"}
     \/ (last' = "skip_break" /\ is_break(timer.phase))) =>
        /\ is_idle(timer')
        /\ elapsed(timer', now') = 0

\* A new timer is Idle in Work with counter 0; an Idle timer has elapsed() zero.
C8_IdleState ==
    /\ last = "init" =>
          is_idle(timer) /\ timer.phase = "Work" /\ timer.sessions_completed = 0
    /\ is_idle(timer) => elapsed(timer, now) = 0

\* C8: Idle invariant. A newly created timer is Idle in the Work phase with
\* counter 0, and in every reachable state whose run-state is Idle (in
\* particular right after reset(), advance_phase() or an effective
\* skip_break()) elapsed() is zero, however much time has passed.
C8_IdleInvariant == [][C8_ToIdleStep]_vars /\ []C8_IdleState

\* C8 witness: the timer sits Idle in a break that advance_phase() entered,
\* and time has passed since.
C8_Witness ==
    /\ is_idle(timer)
    /\ is_break(timer.phase)
    /\ last = "time"
    /\ now >= UnitsPerSec

\* ---------------------------------------------------------------- C9
\* C9: Remaining never negative. remaining() is current_phase_duration() minus
\* elapsed() when elapsed() is smaller, and zero when elapsed() >=
\* current_phase_duration(); it never underflows, also after apply_config
\* shortens the current phase below the time already elapsed.
C9_RemainingNeverNegative ==
    LET d == current_phase_duration(timer)
        e == elapsed(timer, now)
    IN  /\ remaining(timer, now) >= 0
        /\ e < d => remaining(timer, now) = d - e
        /\ e >= d => remaining(timer, now) = 0

\* C9 witness: apply_config has just shortened the current phase from longer
\* than the elapsed time to shorter than it.
C9_Witness ==
    /\ last = "apply_config"
    /\ durBefore > elapsed(timer, now)
    /\ current_phase_duration(timer) < elapsed(timer, now)
    /\ remaining(timer, now) = 0

\* ---------------------------------------------------------------- C2
\* handle_tick finds the timer Running and finished.
TickFires == is_running(timer) /\ is_finished(timer, now)

\* The draft of the Active session as complete_session finalizes it at `now`.
FinalizedByCompletion ==
    [session_phase.session EXCEPT
        !.started_at = session_phase.start_time,
        !.ended_at = now_timestamp(now),
        !.duration_secs = as_secs(timer.work_duration)]

\* A tick that finds the timer Running and finished: the session is completed
\* only for a finishing Work phase, then the phase advances and restarts.
C2_FiringTick ==
    (last' = "tick" /\ TickFires) =>
        /\ timer'.state = Running(now, 0)
        /\ elapsed(timer', now') = 0
        /\ timer.phase = "Work" => is_break(timer'.phase)
        /\ is_break(timer.phase) => timer'.phase = "Work"
        /\ (timer.phase = "Work" /\ session_phase.tag = "Active") =>
              /\ session_phase' = Ready(FinalizedByCompletion)
              /\ db.tag = "Some" => saved' = <<FinalizedByCompletion>>
        /\ (timer.phase # "Work" \/ session_phase.tag # "Active") =>
              /\ session_phase' = session_phase
              /\ saved' = <<>>

\* A tick that finds the timer not Running or not finished changes nothing.
C2_IdleTick ==
    (last' = "tick" /\ ~TickFires) =>
        /\ timer' = timer
        /\ session_phase' = session_phase
        /\ saved' = <<>>

\* C2: Tick orchestration. With the timer Running and finished, handle_tick
\* performs complete_session (iff the finishing phase is Work, so against the
\* pre-advance phase and work duration), then advance_phase, then start: the
\* timer is then Running in the next phase with elapsed restarting from zero.
\* With the timer not Running or not finished (also Paused with elapsed >=
\* duration) it changes neither timer, session phase nor storage.
C2_TickOrchestration == [][C2_FiringTick /\ C2_IdleTick]_vars

\* C2 witness: a tick has completed a work phase with an Active session: the
\* draft was handed to storage and the break is Running from zero.
C2_Witness ==
    /\ last = "tick"
    /\ timer.state = Running(now, 0)
    /\ is_break(timer.phase)
    /\ session_phase.tag = "Ready"
    /\ Len(saved) = 1
    /\ saved[1] = session_phase.session

\* ---------------------------------------------------------------- C3
\* The scenario has run to its end: the tick completed the session.
C3_ScenarioDone == session_phase.tag = "Ready"

\* What the scenario leaves, besides the write to storage.
C3_Outcome ==
    /\ is_running(timer)
    /\ timer.sessions_until_long > 1 => timer.phase = "ShortBreak"
    /\ session_phase.session.duration_secs = as_secs(timer.work_duration)

\* C3 as stated: End-to-end scenario. From the initial state, creating a
\* session and starting it, letting the clock pass the configured work
\* duration with no other user action and processing one tick results in
\* exactly one session handed to save_session with duration_secs equal to the
\* configured work duration, timer phase ShortBreak (threshold > 1), run-state
\* Running, and session phase Ready.
C3_AsStated ==
    C3_ScenarioDone =>
        /\ C3_Outcome
        /\ Len(saved) = 1
        /\ saved[1].duration_secs = as_secs(timer.work_duration)

\* C3 amended: the same, with exactly one session handed to save_session when
\* a database is attached, and none when the program runs without a database.
C3_EndToEnd ==
    /\ C3_ScenarioDone =>
          /\ C3_Outcome
          /\ db.tag = "Some" =>
                /\ Len(saved) = 1
                /\ saved[1].duration_secs = as_secs(timer.work_duration)
          /\ db.tag = "None" => saved = <<>>
    /\ ~C3_ScenarioDone => saved = <<>>

\* C3 witness: the scenario has ended with a database attached and a
\* threshold above 1.
C3_Witness ==
    /\ C3_ScenarioDone
    /\ db.tag = "Some"
    /\ timer.sessions_until_long > 1
    /\ timer.phase = "ShortBreak"
    /\ Len(saved) = 1

\* ---------------------------------------------------------------- C4
\* The key 'x' reaches stop_session with an Active session and at least one
\* whole second measured.
StopTakesEffect ==
    /\ modal = "None"
    /\ view = "Timer"
    /\ is_running(timer) \/ is_paused(timer)
    /\ session_phase.tag = "Active"
    /\ as_secs(elapsed(timer, now)) >= 1

\* Completion records the configured work duration, whatever was measured.
C4_CompletionStep ==
    (last' = "tick" /\ TickFires /\ timer.phase = "Work"
        /\ session_phase.tag = "Active") =>
        /\ session_phase'.session.duration_secs = as_secs(timer.work_duration)
        /\ \A i \in 1..Len(saved') :
              saved'[i].duration_secs = as_secs(timer.work_duration)
        /\ db.tag = "Some" => Len(saved') = 1

\* An early stop records the measured elapsed time in whole seconds.
C4_EarlyStopStep ==
    (last' = "x" /\ StopTakesEffect) =>
        /\ \A i \in 1..Len(saved') :
              saved'[i].duration_secs = as_secs(elapsed(timer, now))
        /\ db.tag = "Some" => Len(saved') = 1

\* C4: Session duration asymmetry. For every Active session complete_session
\* records duration_secs equal to the configured work duration in seconds at
\* that moment, independent of the measured elapsed time; stop_session with
\* measured elapsed >= 1 second records the measured elapsed whole seconds.
C4_DurationAsymmetry == [][C4_CompletionStep /\ C4_EarlyStopStep]_vars

\* C4 witness: a completed session whose wall-clock span is longer than the
\* configured work duration it was recorded with.
C4_Witness ==
    /\ last = "tick"
    /\ Len(saved) = 1
    /\ saved[1].duration_secs = as_secs(timer.work_duration)
    /\ saved[1].ended_at - saved[1].started_at > saved[1].duration_secs

\* ---------------------------------------------------------------- C5
\* A step that hands a session to save_session.
C5_WriteStep ==
    saved' # <<>> =>
        /\ session_phase.tag = "Active"
        /\ \/ last' = "tick" /\ session_phase'.tag = "Ready"
           \/ last' = "x" /\ session_phase'.tag = "Inactive"

\* Steps that never write: any step taken while Ready or Inactive, and the
\* keys that create and start a session, reset, pause, resume or skip a break.
C5_NoWriteStep ==
    (\/ session_phase.tag \in {"Ready", "Inactive"}
     \/ last' \in {"Enter", "s", "r", "p", "n"}) => saved' = <<>>

\* C5: Storage-write invariant. Over every sequence of key events and ticks
\* save_session is invoked only when the session phase leaves Active through
\* complete_session or stop_session; create_session, start_timer, reset,
\* pause, skip_break and any step taken while Ready or Inactive never write.
C5_StorageWriteInvariant == [][C5_WriteStep /\ C5_NoWriteStep]_vars

\* C5 witness: an early stop has just written the session and left Inactive.
C5_Witness ==
    /\ last = "x"
    /\ Len(saved) = 1
    /\ session_phase.tag = "Inactive"

\* ---------------------------------------------------------------- C10
\* C10: Stop with zero elapsed is a no-op. When stop_session is called while
\* the session phase is Active and the measured elapsed time is less than one
\* whole second, the session phase stays Active with the same draft and
\* start_time, nothing is handed to save_session, and the timer's phase and
\* run-state are unchanged.
C10_StopZeroElapsedStep ==
    (last' = "x" /\ modal = "None" /\ view = "Timer"
        /\ session_phase.tag = "Active"
        /\ as_secs(elapsed(timer, now)) = 0) =>
        /\ session_phase' = session_phase
        /\ saved' = <<>>
        /\ timer' = timer

C10_StopZeroElapsedIsNoOp == [][C10_StopZeroElapsedStep]_vars

\* C10 witness: 'x' was pressed on an Active session whose timer had run for
\* less than a second; the session is still Active and the timer still Running.
C10_Witness ==
    /\ last = "x"
    /\ session_phase.tag = "Active"
    /\ is_running(timer)
    /\ elapsed(timer, now) > 0
    /\ elapsed(timer, now) < UnitsPerSec
    /\ saved = <<>>

\* ---------------------------------------------------------------- C11
\* C11: skip_break. In ShortBreak or LongBreak, skip_break() sets the phase to
\* Work and the run-state to Idle whatever the run-state was, and leaves
\* sessions_completed and the configured durations unchanged; in Work it
\* changes nothing.
C11_SkipBreakStep ==
    last' = "skip_break" =>
        IF is_break(timer.phase)
        THEN timer' = [timer EXCEPT !.phase = "Work", !.state = Idle]
        ELSE timer' = timer

C11_SkipBreak == [][C11_SkipBreakStep]_vars

\* C11 witness: a short break was skipped after time had passed, and the timer
\* is Idle in Work.
C11_Witness ==
    /\ last = "skip_break"
    /\ timer.phase = "Work"
    /\ is_idle(timer)
    /\ durBefore = timer.short_break
    /\ durBefore # timer.work_duration
    /\ now > 0

\* ---------------------------------------------------------------- C15
\* C15: apply_config frame. apply_config changes only the three durations and
\* the long-break threshold; phase, run-state (start instant and accumulated
\* elapsed) and sessions_completed are unchanged, so a configuration change in
\* the middle of a phase does not reset progress.
C15_ApplyConfigStep ==
    last' = "apply_config" =>
        /\ timer'.phase = timer.phase
        /\ timer'.state = timer.state
        /\ timer'.sessions_completed = timer.sessions_completed
        /\ elapsed(timer', now') = elapsed(timer, now)
        /\ \E c \in HarnessConfigs :
              timer' = [timer EXCEPT
                          !.work_duration = from_secs(c.work_duration_secs),
                          !.short_break = from_secs(c.short_break_secs),
                          !.long_break = from_secs(c.long_break_secs),
                          !.sessions_until_long = c.sessions_until_long_break]

C15_ApplyConfigFrame == [][C15_ApplyConfigStep]_vars

\* C15 witness: the configuration changed the duration of the phase in
\* progress, which is still Running with the time it had accumulated.
C15_Witness ==
    /\ last = "apply_config"
    /\ is_running(timer)
    /\ elapsed(timer, now) > 0
    /\ durBefore # current_phase_duration(timer)

\* ---------------------------------------------------------------- C18
\* C18: start(). From Idle it yields Running with elapsed_before_pause = 0 and
\* started = now; from Paused it yields Running carrying the stored elapsed;
\* when already Running it leaves the run-state exactly unchanged.
C18_StartStep ==
    last' = "start" =>
        CASE is_idle(timer) -> timer' = [timer EXCEPT !.state = Running(now, 0)]
          [] is_paused(timer) ->
                timer' = [timer EXCEPT !.state = Running(now, timer.state.elapsed)]
          [] is_running(timer) -> timer' = timer

C18_Start == [][C18_StartStep]_vars

\* C18 witness: start() was called on a timer that had been Running for a
\* while, and its start instant is still the earlier one.
C18_Witness ==
    /\ last = "start"
    /\ is_running(timer)
    /\ timer.state.started < now
    /\ elapsed(timer, now) = ranFor
    /\ ranFor > 0

\* ---------------------------------------------------------------- C19
\* C19: pause(). From Running it yields Paused holding the elapsed value
\* computed at that moment; from Idle or Paused it leaves the run-state
\* unchanged; it never changes phase, counter or durations.
C19_PauseStep ==
    last' = "pause" =>
        IF is_running(timer)
        THEN timer' = [timer EXCEPT !.state = Paused(elapsed(timer, now))]
        ELSE timer' = timer

C19_Pause == [][C19_PauseStep]_vars

\* C19 witness: pause() has just frozen a timer that ran in two intervals.
C19_Witness ==
    /\ last = "pause"
    /\ is_paused(timer)
    /\ timer.state.elapsed = ranFor
    /\ ranFor >= UnitsPerSec
    /\ ranFor < now


\* ---------------------------------------------------------------- C12
\* A tick completes a Work phase: complete_session is called.
CompletionTick == TickFires /\ timer.phase = "Work"

\* complete_session from Active keeps the draft; from Ready or Inactive it
\* leaves the session phase as it is.
C12_CompleteStep ==
    (last' = "tick" /\ CompletionTick) =>
        IF session_phase.tag = "Active"
        THEN /\ session_phase'.tag = "Ready"
             /\ session_phase'.session.name = session_phase.session.name
             /\ session_phase'.session.description = session_phase.session.description
             /\ session_phase'.session.category = session_phase.session.category
        ELSE session_phase' = session_phase

\* stop_session from Active with a whole second measured discards the draft and
\* resets the run-state, keeping phase and counter.
C12_StopStep ==
    (last' = "x" /\ StopTakesEffect) =>
        /\ session_phase' = Inactive
        /\ timer' = [timer EXCEPT !.state = Idle]

\* C12: Session transitions on completion and early stop. complete_session
\* from Active moves to Ready retaining the same draft (name, description,
\* category) and leaves the session phase unchanged when it is Ready or
\* Inactive; stop_session from Active with elapsed >= 1 second moves to
\* Inactive and resets the run-state to Idle without changing phase or counter.
C12_SessionTransitions == [][C12_CompleteStep /\ C12_StopStep]_vars

\* C12 witness: a Work phase that the timer entered by itself, with the
\* session Ready, has completed; the session is still Ready and, with a
\* database attached, nothing was written.
C12_Witness ==
    /\ last = "tick"
    /\ is_break(timer.phase)
    /\ timer.state = Running(now, 0)
    /\ session_phase.tag = "Ready"
    /\ db.tag = "Some"
    /\ saved = <<>>

\* ---------------------------------------------------------------- C13
\* The completing tick leaves the same session phase and timer whatever the
\* outcome of the write; only the notification depends on it.
C13_CompleteStep ==
    (last' = "tick" /\ CompletionTick /\ session_phase.tag = "Active") =>
        /\ session_phase' = Ready(FinalizedByCompletion)
        /\ timer' = start(advance_phase(timer), now)
        /\ running' = running
        /\ \/ notification' = notification
           \/ /\ db.tag = "Some"
              /\ notification' =
                    Some([message |-> "Failed to save session!", level |-> "Error"])

\* The same for the early stop.
C13_StopStep ==
    (last' = "x" /\ StopTakesEffect) =>
        /\ session_phase' = Inactive
        /\ timer' = reset(timer)
        /\ running' = running
        /\ \/ notification' = None
           \/ /\ db.tag = "Some"
              /\ notification' =
                    Some([message |-> "Failed to save session!", level |-> "Error"])

\* C13: Persistence failure is non-fatal. For complete_session and
\* stop_session the resulting session phase and timer state are the same
\* whether save_session succeeds, fails, or no database is attached; a failed
\* save only additionally sets an Error notification, and the application
\* keeps running.
C13_PersistenceFailureNonFatal == [][C13_CompleteStep /\ C13_StopStep]_vars

\* C13 witness: the write of a completed session has failed; the session is
\* Ready, the break is running and so is the application.
C13_Witness ==
    /\ last = "tick"
    /\ notification = Some([message |-> "Failed to save session!", level |-> "Error"])
    /\ Len(saved) = 1
    /\ session_phase = Ready(saved[1])
    /\ is_running(timer)
    /\ is_break(timer.phase)
    /\ running

\* ---------------------------------------------------------------- C14
\* 's' on an Idle timer in the Work phase with a session calls start_timer.
C14_StartTimerStep ==
    (last' = "s" /\ ~is_break(timer.phase) /\ is_idle(timer)) =>
        /\ session_phase.tag \in {"Ready", "Active"} =>
              /\ session_phase' = Active(session_phase.session, now_timestamp(now))
              /\ timer' = start(timer, now)
        /\ session_phase.tag = "Inactive" => session_phase' = Inactive

\* Enter on a valid name creates the session and calls start_timer.
C14_CreateStep ==
    (last' = "Enter" /\ modal = "Input" /\ validate_session_name(input.name)) =>
        /\ session_phase'.tag = "Active"
        /\ session_phase'.start_time = now_timestamp(now)
        /\ timer' = start(timer, now)

\* The engine's resume path, and pause, leave the session alone.
C14_ResumeStep ==
    (last' = "s" /\ timer.phase = "Work" /\ is_paused(timer)) =>
        /\ session_phase' = session_phase
        /\ timer' = start(timer, now)

C14_PauseStep == last' = "p" => session_phase' = session_phase

\* start_timer called without a session leaves Inactive and starts the timer.
C14_InactiveStays ==
    LET a == start_timer([Self EXCEPT !.session_phase = Inactive], now) IN
    /\ a.session_phase = Inactive
    /\ a.timer = start(timer, now)

\* C14: Session start_time refresh rule. start_timer moves Ready or Active to
\* Active with start_time set to the clock's current timestamp (also when
\* already Active), leaves Inactive as Inactive, and calls the timer's
\* start(); the resume path (key 's' while Paused in Work) and pause never
\* change the session phase or its start_time.
C14_StartTimeRefresh ==
    /\ [][C14_StartTimerStep /\ C14_CreateStep /\ C14_ResumeStep /\ C14_PauseStep]_vars
    /\ []C14_InactiveStays

\* C14 witness: a session that was already Active (its timer reset in its
\* first Work phase) has been started again later, with a new start_time.
C14_Witness ==
    /\ last = "s"
    /\ session_phase.tag = "Active"
    /\ timer.phase = "Work"
    /\ timer.sessions_completed = 0
    /\ timer.sessions_until_long > 1
    /\ timer.state = Running(now, 0)
    /\ session_phase.start_time = now_timestamp(now)
    /\ session_phase.start_time > EpochAtStart

\* ---------------------------------------------------------------- C20
\* C20: reset(). From every run-state it sets the run-state to Idle and leaves
\* phase, counter, durations and threshold unchanged; the 'r' key resets the
\* timer without changing the session phase.
C20_ResetStep ==
    last' = "r" =>
        /\ timer' = [timer EXCEPT !.state = Idle]
        /\ session_phase' = session_phase
        /\ saved' = <<>>

C20_Reset == [][C20_ResetStep]_vars

\* C20 witness: 'r' was pressed during a break that had run for a while, with
\* the session Ready: the timer is Idle in the same break.
C20_Witness ==
    /\ last = "r"
    /\ is_idle(timer)
    /\ is_break(timer.phase)
    /\ session_phase.tag = "Ready"
    /\ now > from_secs(1)


\* ---------------------------------------------------------------- C16
\* The value typed for the current field is non-numeric or not positive.
InvalidInput ==
    LET parsed == parse_i64(settings.editing_value) IN
    parsed.tag = "Err" \/ parsed.value <= 0

\* Enter reaches save_settings: the settings modal is open in its timer mode.
CommitsSettings == modal = "Settings" /\ settings.mode = "Timer"

InvalidSettings ==
    Some([message |-> "Invalid settings: all values must be positive",
          level |-> "Warning"])

\* C16 as stated: Invalid configuration input is rejected at commit. When the
\* user commits the settings modal (Enter) while the value typed for the
\* current field is non-positive or non-numeric, the committed configuration,
\* the timer's durations and threshold and the stored configuration all remain
\* what they were before the modal was opened (data.config does not change
\* while the modal is open), and a notification is set.
C16_AsStatedStep ==
    (last' = "Enter" /\ CommitsSettings /\ InvalidInput) =>
        /\ data'.config = data.config
        /\ timer' = timer
        /\ \A i \in 1..Len(config_written') : config_written'[i] = data.config
        /\ notification' # None

C16_AsStated == [][C16_AsStatedStep]_vars

\* C16 witness: Enter was pressed on a value that is not a positive number,
\* after a valid edit of another field; the modal has closed, the edit of the
\* other field is committed, applied and written, and no notification is set.
C16_Witness ==
    /\ last = "Enter"
    /\ modal = "None"
    /\ settings.mode = "Timer"
    /\ InvalidInput
    /\ settings.field = "ShortBreak"
    /\ data.config.work_duration_secs = 3 * 60
    /\ timer.work_duration = from_secs(3 * 60)
    /\ config_written = <<data.config>>
    /\ notification = None

\* ---------------------------------------------------------------- C17
\* The committed configuration is positive, unless it still is the invalid
\* one the program started with.
C17_Positive == is_valid(data.config) \/ data.config = InvalidStoredConfig

\* A valid committed configuration stays valid.
C17_StaysValidStep == is_valid(data.config) => is_valid(data'.config)

\* Whatever changes the committed configuration or the timer, or writes to
\* the database, is the commit of an edit buffer that is_valid accepts.
C17_CommitStep ==
    (data'.config # data.config \/ timer' # timer \/ config_written' # <<>>) =>
        /\ last' = "Enter"
        /\ CommitsSettings
        /\ is_valid(settings'.editing_config)
        /\ data'.config = settings'.editing_config
        /\ timer' = apply_config(timer, data'.config)
        /\ \A i \in 1..Len(config_written') : config_written'[i] = data'.config

\* C17: Config positivity invariant. In every state reached from the default
\* configuration through settings-modal key events all four fields of the
\* committed configuration are strictly positive, and the edit buffer is
\* checked with is_valid before it is committed and applied to the timer.
C17_ConfigPositivity ==
    [][C17_StaysValidStep /\ C17_CommitStep]_vars /\ []C17_Positive

\* C17 witness: an edit buffer that is_valid refuses (zero work duration, with
\* a valid edit of the short break) was turned down at Enter.
C17_Witness ==
    /\ last = "Enter"
    /\ modal = "None"
    /\ notification = InvalidSettings
    /\ data.config = InvalidStoredConfig
    /\ settings.editing_config.short_break_secs = 3 * 60
    /\ ~is_valid(settings.editing_config)
    /\ config_written = <<>>

\* ---------------------------------------------------------------- C21
\* A step that calls advance_phase(): the run-state is Idle afterwards, and
\* from a break the phase becomes Work and the counter is not touched.
C21_AdvanceStep ==
    last' = "advance_phase" =>
        /\ timer'.state = Idle
        /\ is_break(timer.phase) =>
              /\ timer'.phase = "Work"
              /\ timer'.sessions_completed = timer.sessions_completed

\* C21: advance_phase() from ShortBreak or LongBreak sets the phase to Work and
\* leaves sessions_completed unchanged; after advance_phase() from any phase
\* and any run-state the run-state is Idle.
C21_AdvanceFromBreak == [][C21_AdvanceStep]_vars

\* C21 witness: advance_phase() has left a short break (the duration of the
\* phase before the step is the short break's, which differs from the work
\* duration) with one work session counted, after time had passed.
C21_Witness ==
    /\ last = "advance_phase"
    /\ timer.phase = "Work"
    /\ timer.state = Idle
    /\ timer.sessions_completed = 1
    /\ durBefore = timer.short_break
    /\ timer.short_break # timer.work_duration
    /\ timer.short_break # timer.long_break
    /\ now > 0

\* ---------------------------------------------------------------- C28
\* C28 as stated: apply_config transfers values exactly. For every valid
\* Config, after apply_config the timer's work, short-break and long-break
\* durations equal the config's seconds values and the timer's
\* sessions_until_long equals config.sessions_until_long_break: the narrowing
\* to the 8-bit threshold never changes the value.
C28_AsStatedStep ==
    (last' = "apply_config" /\ is_valid(data'.config)) =>
        /\ timer'.work_duration = from_secs(data'.config.work_duration_secs)
        /\ timer'.short_break = from_secs(data'.config.short_break_secs)
        /\ timer'.long_break = from_secs(data'.config.long_break_secs)
        /\ timer'.sessions_until_long = data'.config.sessions_until_long_break

C28_AsStated == [][C28_AsStatedStep]_vars

\* C28 witness: a valid configuration with a threshold of 256 sessions was
\* committed and applied, and the timer's threshold is 0.
C28_Witness ==
    /\ last = "apply_config"
    /\ is_valid(data.config)
    /\ data.config.sessions_until_long_break = U8Modulus
    /\ timer.work_duration = from_secs(data.config.work_duration_secs)
    /\ timer.sessions_until_long = 0

\* ---------------------------------------------------------------- C29
\* C29 as stated: the completed-session counter is a pure modular counter. In
\* every reachable state, over any interleaving of advance_phase, skip_break,
\* reset and apply_config with valid configs, sessions_completed is strictly
\* less than sessions_until_long, and the 8-bit increment never overflows.
C29_AsStated ==
    /\ timer.sessions_completed < timer.sessions_until_long
    /\ timer.sessions_completed + 1 < U8Modulus

\* The increment of advance_phase stays within the u8.
C29_NoOverflow == timer.sessions_completed + 1 < U8Modulus

\* advance_phase from Work counts modulo the threshold: the counter becomes
\* its successor, or 0 with a long break when the successor reaches the
\* threshold.
C29_ModularStep ==
    (last' = "advance_phase" /\ timer.phase = "Work") =>
        LET incremented == timer.sessions_completed + 1 IN
        /\ timer'.sessions_completed =
              IF incremented >= timer.sessions_until_long THEN 0 ELSE incremented
        /\ timer'.sessions_completed = 0 \/
              timer'.sessions_completed < timer'.sessions_until_long

\* advance_phase, skip_break, reset and start keep the counter below the
\* threshold once it is.
C29_PreservedStep ==
    (/\ last' \in {"advance_phase", "skip_break", "reset", "start"}
     /\ timer.sessions_completed < timer.sessions_until_long) =>
        timer'.sessions_completed < timer'.sessions_until_long

\* While apply_config has not changed a threshold of at least 1, the counter
\* is below it.
C29_BelowUnchangedThreshold ==
    (~thresholdChanged /\ timer.sessions_until_long >= 1) =>
        timer.sessions_completed < timer.sessions_until_long

\* C29, amended: the 8-bit increment never overflows; advance_phase from Work
\* counts modulo the threshold; the counter stays strictly below the threshold
\* under advance_phase, skip_break and reset, and in every state in which
\* apply_config has not changed the threshold.  (apply_config, which does not
\* touch the counter, can put the threshold at or below it.)
C29_ModularCounter ==
    /\ [][C29_ModularStep /\ C29_PreservedStep]_vars
    /\ []C29_NoOverflow
    /\ []C29_BelowUnchangedThreshold

\* C29 witness: with a threshold of 255 the counter has reached 254, the
\* largest value the increment is applied to before the long break.
C29_Witness ==
    /\ last = "advance_phase"
    /\ timer.phase = "ShortBreak"
    /\ timer.sessions_until_long = U8Modulus - 1
    /\ timer.sessions_completed = U8Modulus - 2

\* ---------------------------------------------------------------- C30
\* In a long break the counter is 0.
C30_ZeroInLongBreak == timer.phase = "LongBreak" => timer.sessions_completed = 0

\* The counter changes only where advance_phase() is called in the Work phase
\* (by the harness, or by the tick handler of the application).
C30_ChangeStep ==
    timer'.sessions_completed # timer.sessions_completed =>
        /\ last' \in {"advance_phase", "tick"}
        /\ timer.phase = "Work"

\* skip_break, reset, start, pause, early stop ('x') and apply_config leave
\* the counter alone.
C30_FrameStep ==
    last' \in {"skip_break", "reset", "start", "pause", "apply_config", "x"} =>
        timer'.sessions_completed = timer.sessions_completed

C22_Expected ==
    LET typed == parse_i64(settings.editing_value)
        buffer == settings.editing_config
    IN  IF InvalidInput THEN buffer
        ELSE CASE settings.field = "WorkDuration" ->
                     [buffer EXCEPT !.work_duration_secs = typed.value * 60]
               [] settings.field = "ShortBreak" ->
                     [buffer EXCEPT !.short_break_secs = typed.value * 60]
               [] settings.field = "LongBreak" ->
                     [buffer EXCEPT !.long_break_secs = typed.value * 60]
               [] settings.field = "SessionsUntilLong" ->
                     [buffer EXCEPT !.sessions_until_long_break = typed.value]

\* Moving to another field keeps the typed value in the edit buffer.
C22_NavigateStep ==
    (last' \in {"Tab", "Up"} /\ CommitsSettings) =>
        settings'.editing_config = C22_Expected

\* Enter with a valid edit buffer commits it, applies it and writes it.
C22_SaveStep ==
    (last' = "Enter" /\ CommitsSettings /\ is_valid(C22_Expected)) =>
        /\ data'.config = C22_Expected
        /\ settings'.editing_config = C22_Expected
        /\ timer' =
              [timer EXCEPT
                 !.work_duration = from_secs(C22_Expected.work_duration_secs),
                 !.short_break = from_secs(C22_Expected.short_break_secs),
                 !.long_break = from_secs(C22_Expected.long_break_secs),
                 !.sessions_until_long =
                     C22_Expected.sessions_until_long_break % U8Modulus]
        /\ config_written' = IF db.tag = "Some" THEN <<C22_Expected>> ELSE <<>>

\* C22: Settings save commits all changes. After save_settings with a valid
\* edit buffer the committed configuration equals the edit buffer, including
\* every field edited earlier in the same modal session and the positive value
\* typed for the focused field (minutes converted to seconds); the timer's
\* durations and threshold are updated from it, and save_config is called with
\* it when a database is attached.
C22_SaveCommitsAllChanges == [][C22_NavigateStep /\ C22_SaveStep]_vars

\* C22 witness: the work duration was edited to 3 minutes, then the short
\* break, and Enter in the short-break field committed, applied and wrote both.
C22_Witness ==
    /\ last = "Enter"
    /\ modal = "None"
    /\ settings.field = "ShortBreak"
    /\ settings.editing_value = <<"3">>
    /\ data.config.work_duration_secs = 3 * 60
    /\ data.config.short_break_secs = 3 * 60
    /\ data.config.long_break_secs = DEFAULT_LONG_BREAK_SECS
    /\ timer.work_duration = from_secs(3 * 60)
    /\ timer.short_break = from_secs(3 * 60)
    /\ config_written = <<data.config>>

\* ---------------------------------------------------------------- C23
\* A key handled by the settings modal that does not reach save_settings.
C23_EditingStep == modal = "Settings" /\ ~(last' = "Enter" /\ CommitsSettings)

\* Such a key leaves the committed configuration, the timer and the stored
\* configuration as they are, and the session, the view and the input too.
C23_IsolationStep ==
    C23_EditingStep =>
        /\ data'.config = data.config
        /\ timer' = timer
        /\ config_written' = <<>>
        /\ UNCHANGED <<session_phase, view, input, running, db, saved>>

\* Esc closes the modal and keeps the edit buffer as it was.
C23_EscStep ==
    (modal = "Settings" /\ last' = "Esc") =>
        modal' = "None" /\ settings' = settings

\* C23: Settings edit-buffer isolation. Typing, field navigation
\* (apply_editing_value) and closing the settings modal with Esc change only
\* the edit buffer; the committed configuration, the timer's durations and
\* threshold and the stored configuration change only through save_settings.
C23_EditBufferIsolation == [][C23_IsolationStep /\ C23_EscStep]_vars

\* C23 witness: the modal was closed with Esc after the work duration had been
\* edited in the buffer; the committed configuration and the timer still have
\* the default work duration.
C23_Witness ==
    /\ last = "Esc"
    /\ modal = "None"
    /\ running
    /\ settings.editing_config.work_duration_secs = 3 * 60
    /\ data.config = ConfigDefault
    /\ timer.work_duration = from_secs(DEFAULT_WORK_SECS)
    /\ config_written = <<>>

\* ---------------------------------------------------------------- C24
\* The content takes at most MAX bytes.
C24_WithinMax == str_len(bounded) <= BoundedMax

\* push appends the character when it fits and leaves the content unchanged
\* when it would take the length over MAX.
C24_PushStep ==
    last' = "push" =>
        LET c == given'[1] IN
        IF str_len(bounded) + len_utf8(c) > BoundedMax
        THEN bounded' = bounded
        ELSE bounded' = bounded \o <<c>>

\* from_string keeps the longest prefix of whole characters that fits.
C24_FromStringStep ==
    last' = "from_string" =>
        \E k \in 0..Len(given') :
            /\ bounded' = SubSeq(given', 1, k)
            /\ str_len(bounded') <= BoundedMax
            /\ \A j \in (k + 1)..Len(given') :
                  str_len(SubSeq(given', 1, j)) > BoundedMax

\* C24: BoundedString<MAX> length bound. After any sequence of from_string,
\* push, pop and clear the byte length of the content is at most MAX; a push
\* whose character would take the length over MAX leaves the content unchanged,
\* and from_string keeps the longest prefix of whole characters that fits in
\* MAX bytes.
C24_BoundedStringLength ==
    [][C24_PushStep /\ C24_FromStringStep]_vars /\ []C24_WithinMax

\* C24 witness: from_string was given a string longer than MAX whose byte MAX
\* falls inside a character, and kept the characters before it.
C24_Witness ==
    /\ last = "from_string"
    /\ str_len(given) > BoundedMax
    /\ ~is_char_boundary(given, BoundedMax)
    /\ bounded # <<>>
    /\ str_len(bounded) < BoundedMax
    /\ Len(bounded) < Len(given)

\* ---------------------------------------------------------------- C25
\* The name typed into the input modal is empty or whitespace only.
C25_BlankName == \A i \in 1..Len(input.name) : input.name[i] = " "

\* Enter is pressed in the input modal on such a name.
C25_EnterOnBlankName(l) == l = "Enter" /\ modal = "Input" /\ C25_BlankName

\* What the code does keep: the session, the timer and storage are untouched
\* and the modal stays open.
C25_NoMutationStep ==
    C25_EnterOnBlankName(last') =>
        /\ session_phase' = session_phase
        /\ timer' = timer
        /\ saved' = <<>>
        /\ input' = input
        /\ modal' = "Input"

C25_NoMutation == [][C25_NoMutationStep]_vars

\* C25 as stated: an invalid session name is rejected before any state
\* mutation. Pressing Enter in the input modal with an empty or whitespace-only
\* name leaves the session phase, the timer and storage unchanged, keeps the
\* input modal open for correction, and notifies the user.
C25_AsStatedStep ==
    C25_EnterOnBlankName(last') =>
        /\ session_phase' = session_phase
        /\ timer' = timer
        /\ saved' = <<>>
        /\ modal' = "Input"
        /\ notification' # None

C25_AsStated == [][C25_AsStatedStep]_vars

\* C25 witness: Enter was pressed on a whitespace-only name; the modal is
\* still open, there is no session, and no notification is shown.
C25_Witness ==
    /\ last = "Enter"
    /\ modal = "Input"
    /\ input.name = <<" ">>
    /\ session_phase = Inactive
    /\ timer.state = Idle
    /\ notification = None

\* ---------------------------------------------------------------- C27
FailedToSaveSession ==
    Some([message |-> "Failed to save session!", level |-> "Error"])

\* The one notification a key handler of this model raises: the early stop
\* ('x') whose save failed.
C27_RaisedByKey ==
    /\ last' = "x"
    /\ saved' # <<>>
    /\ notification' = FailedToSaveSession

\* After a key event the notification is None, unless its handler raised one.
C27_KeyStep == last' \in Keys => (notification' = None \/ C27_RaisedByKey)

\* Time passing leaves the notification; a tick leaves it or raises the
\* failed-save notification of the session it completed.
C27_NoKeyStep ==
    /\ last' = "time" => notification' = notification
    /\ last' = "tick" =>
          \/ notification' = notification
          \/ saved' # <<>> /\ notification' = FailedToSaveSession

\* C27: Key press clears notification. Handling any key event first clears the
\* pending notification, so after a key event whose handler raises no new
\* notification the notification is None; a notification raised by a tick
\* (failed save) stays visible until the next key event.
C27_KeyPressClearsNotification == [][C27_KeyStep /\ C27_NoKeyStep]_vars

\* C27 witness: the session completed by a tick (it is Ready) could not be
\* saved, and the notification is still shown after time has passed.
C27_Witness ==
    /\ last = "time"
    /\ session_phase.tag = "Ready"
    /\ notification = FailedToSaveSession

\* ---------------------------------------------------------------- C26
\* The timer is Running and its phase is finished, with the loop running.
C26_FinishedRunning == running /\ is_running(timer) /\ is_finished(timer, now)

\* The loop has processed a tick; or the user has quit, or has paused, reset
\* or stopped the timer, so that nothing is left to detect.
C26_TickProcessed == last = "tick" \/ ~C26_FinishedRunning

\* C26 as stated: Bounded staleness of finished-phase detection. Once the timer
\* is Running and finished, the event loop processes a tick, and therefore
\* advances the phase; no stream of key events can postpone the tick, and with
\* it phase completion, indefinitely.
C26_AsStated == C26_FinishedRunning ~> C26_TickProcessed

\* C26 witness: the phase has been finished for a second or more, a key was
\* the last event handled, and the timer is still Running in the same phase.
C26_Witness ==
    /\ C26_FinishedRunning
    /\ elapsed(timer, now) >= current_phase_duration(timer) + from_secs(1)
    /\ last = "Esc"
    /\ modal = "None"

\* ---------------------------------------------------------------- C35
\* C35: No session means an idle timer. In every state reachable through any
\* sequence of key events and ticks, if the session phase is Inactive then the
\* timer run-state is Idle.
C35_NoSessionIdleTimer == session_phase.tag = "Inactive" => is_idle(timer)

\* C35 witness: an early stop has ended a session that ran; the session it
\* handed to storage is there, the phase is Inactive and the timer Idle.
C35_Witness ==
    /\ last = "x"
    /\ saved # <<>>
    /\ session_phase = Inactive
    /\ is_idle(timer)
    /\ now > 0

\* ---------------------------------------------------------------- C36
\* C36 as stated: every work phase that runs with a session is recorded. In
\* every reachable state in which the timer is Running or Paused in the Work
\* phase and a session draft exists, the session phase is Active, so each Work
\* phase that runs to completion (including Work phases auto-started after a
\* break) results in one save_session call.
C36_AsStated ==
    (timer.phase = "Work" /\ ~is_idle(timer) /\ has_session(Self)) =>
        session_phase.tag = "Active"

\* C36 witness: a Work phase that handle_tick started after a break has run
\* its full length while the draft is Ready (a draft leaves Active for Ready
\* only in complete_session, which ends the Work phase): the tick that
\* completes this phase finds no Active session to hand to storage.
C36_Witness ==
    /\ db.tag = "Some"
    /\ timer.phase = "Work"
    /\ is_running(timer)
    /\ is_finished(timer, now)
    /\ session_phase.tag = "Ready"
    /\ session_phase.session.ended_at < from_clock(now)

\* ---------------------------------------------------------------- C37
\* create_session acts in this step: Enter in the input modal on a valid name.
C37_CreateActs ==
    last' = "Enter" /\ modal = "Input" /\ validate_session_name(input.name)

\* The Active draft is replaced or dropped by this step: a new draft is
\* created over it, or the phase afterwards holds no draft or another one.
C37_DraftGone ==
    /\ session_phase.tag = "Active"
    /\ \/ C37_CreateActs
       \/ session_phase'.tag = "Inactive"
       \/ session_phase'.session # session_phase.session

\* C37 as stated: no silent discard of an active session. Whenever the session
\* phase is Active, the draft it holds is neither replaced nor dropped except
\* by complete_session or stop_session, each of which hands that draft to
\* save_session; in particular opening the input modal and creating a new
\* session while a session is Active does not lose the active session's
\* record. (Stated where a database is attached, so that the hand-over is a
\* save_session call.)
C37_AsStatedStep ==
    (C37_DraftGone /\ db.tag = "Some") =>
        /\ last' \in {"tick", "x"}
        /\ Len(saved') = 1
        /\ saved'[1].name = session_phase.session.name
        /\ saved'[1].started_at = session_phase.start_time

C37_AsStated == [][C37_AsStatedStep]_vars

\* C37 witness: the timer has been Running in Work since instant 0, so the
\* session started then was Active until now; Enter in the input modal has
\* just put a new draft in its place, with a later start_time, and nothing
\* was handed to storage.
C37_Witness ==
    /\ last = "Enter"
    /\ modal = "None"
    /\ db.tag = "Some"
    /\ timer.phase = "Work"
    /\ is_running(timer)
    /\ timer.state.started = 0
    /\ timer.state.elapsed_before_pause = 0
    /\ session_phase.tag = "Active"
    /\ session_phase.start_time > from_clock(0)
    /\ saved = <<>>

\* ---------------------------------------------------------------- C38
\* A session is handed to save_session only by a step taken in the Work phase.
C38_SaveStep == saved' # <<>> => timer.phase = "Work"

\* The session phase is not Active while the timer is in a break.
C38_ActiveInWork == session_phase.tag = "Active" => timer.phase = "Work"

\* C38 as stated: sessions record work time only. Over every sequence of key
\* events and ticks, save_session is invoked only while the timer phase is
\* Work, i.e. the session phase is never Active while the timer is in
\* ShortBreak or LongBreak and an early stop never records elapsed break time
\* as a session.
C38_AsStated == [][C38_SaveStep]_vars /\ []C38_ActiveInWork

\* C38 witness: an early stop ('x' leaves the timer's phase as it was) has
\* handed a session to storage while the timer was in a break; its duration
\* is the time the break had run.
C38_Witness ==
    /\ last = "x"
    /\ is_break(timer.phase)
    /\ is_idle(timer)
    /\ session_phase = Inactive
    /\ Len(saved) = 1
    /\ saved[1].duration_secs >= 1

\* ---------------------------------------------------------------- C39
\* start_timer is called in this step and finds a session whose start_time it
\* sets: by 's' in the Work phase with an Idle timer, or by Enter in the input
\* modal on a valid name.
C39_StartTimerActs ==
    \/ /\ last' = "s"
       /\ ~is_break(timer.phase)
       /\ is_idle(timer)
       /\ has_session(Self)
    \/ /\ last' = "Enter"
       /\ modal = "Input"
       /\ validate_session_name(input.name)

\* The timer goes from Idle to Running, with nothing elapsed.
C39_StartStep ==
    C39_StartTimerActs =>
        /\ is_idle(timer)
        /\ is_running(timer')
        /\ elapsed(timer', now) = 0

\* The time an early stop records lies between started_at and ended_at.
C39_StopStep ==
    (last' = "x" /\ saved' # <<>>) =>
        saved'[1].duration_secs <= saved'[1].ended_at - saved'[1].started_at

\* C39 as stated: start_time marks the beginning of the countdown. Whenever
\* start_timer sets or refreshes the session's start_time, the timer's elapsed
\* time is zero at that moment (the timer goes from Idle to Running), so the
\* elapsed time later recorded by an early stop contains no time accumulated
\* before that start_time.
C39_AsStated == [][C39_StartStep /\ C39_StopStep]_vars

\* C39 witness: an early stop has recorded more seconds than passed between
\* the session's started_at and ended_at.
C39_Witness ==
    /\ last = "x"
    /\ Len(saved) = 1
    /\ saved[1].duration_secs > saved[1].ended_at - saved[1].started_at

\* ---------------------------------------------------------------- C40
\* Every session handed to save_session by this step is well-formed: it comes
\* from an Active phase, whose start_time it carries as started_at.
C40_SaveStep ==
    \A i \in 1..Len(saved') :
        /\ session_phase.tag = "Active"
        /\ saved'[i].duration_secs >= 1
        /\ saved'[i].started_at = session_phase.start_time
        /\ saved'[i].ended_at >= saved'[i].started_at

\* The start_time of an Active phase is what the most recent start_timer
\* captured: no other step sets or changes it.
C40_StartTimeStep ==
    (session_phase'.tag = "Active" /\ ~C39_StartTimerActs) =>
        /\ session_phase.tag = "Active"
        /\ session_phase'.start_time = session_phase.start_time

\* The configuration is valid.
C40_ValidConfig == is_valid(data.config)

\* C40: Persisted sessions are well-formed. With a valid configuration and a
\* non-decreasing wall clock, every session handed to save_session has
\* duration_secs >= 1, started_at equal to the start_time captured by the most
\* recent start_timer, and ended_at >= started_at.
C40_PersistedSessionsWellFormed ==
    /\ [][C40_SaveStep /\ C40_StartTimeStep]_vars
    /\ []C40_ValidConfig

\* C40 witness: a session whose timer did not run all the time since its
\* start_time has been stopped early and handed to storage: it ended later
\* than it started, and it lasted a second or more, less than the time between.
C40_Witness ==
    /\ last = "x"
    /\ Len(saved) = 1
    /\ saved[1].duration_secs >= 1
    /\ saved[1].duration_secs < saved[1].ended_at - saved[1].started_at

\* ---------------------------------------------------------------- C33
\* The draft create_session builds from the input fields.
C33_Draft ==
    [id |-> None,
     name |-> input.name,
     description |-> IF input.description = <<>> THEN None
                     ELSE Some(input.description),
     category |-> data.categories[input.selected_category + 1].name,
     started_at |-> 0, ended_at |-> 0, duration_secs |-> 0]

\* create_session, called in any state, makes the phase Ready with that draft
\* and changes nothing else, the timer included.
C33_CreateSession ==
    LET a == create_session(Self) IN
    /\ a.session_phase = Ready(C33_Draft)
    /\ a.timer = timer
    /\ a = [Self EXCEPT !.session_phase = a.session_phase]

\* Enter in the input modal on a valid name: the draft created is the one
\* start_timer then makes Active.
C33_CreateStep ==
    (last' = "Enter" /\ modal = "Input" /\ validate_session_name(input.name)) =>
        /\ session_phase'.tag = "Active"
        /\ session_phase'.session = C33_Draft

\* Every session handed to save_session has had its three time fields
\* overwritten: none still holds the placeholder.
C33_SaveStep ==
    \A i \in 1..Len(saved') :
        /\ saved'[i].started_at = session_phase.start_time
        /\ saved'[i].ended_at = from_clock(now)
        /\ saved'[i].duration_secs \in
              {as_secs(timer.work_duration), as_secs(elapsed(timer, now))}
        /\ saved'[i].started_at # 0
        /\ saved'[i].ended_at # 0
        /\ saved'[i].duration_secs # 0

\* C33: create_session builds a new draft from the input fields with
\* placeholder started_at, ended_at and duration_secs of 0, sets the session
\* phase to Ready and does not touch the timer; the placeholder time fields
\* are never what is persisted, because every draft handed to save_session has
\* had started_at, ended_at and duration_secs overwritten at completion or
\* early stop.
C33_PlaceholdersNeverPersisted ==
    /\ [][C33_CreateStep /\ C33_SaveStep]_vars
    /\ []C33_CreateSession

\* C33 witness: the tick that completed the Work phase has handed the draft to
\* storage with its time fields filled in, and keeps it as the Ready session.
C33_Witness ==
    /\ last = "tick"
    /\ Len(saved) = 1
    /\ session_phase = Ready(saved[1])
    /\ saved[1].name = <<"a">>
    /\ saved[1].started_at >= EpochAtStart
    /\ saved[1].ended_at > saved[1].started_at
    /\ saved[1].duration_secs = as_secs(timer.work_duration)

\* ---------------------------------------------------------------- C32
\* A value of type TimerState.
C32_IsTimerState(s) ==
    CASE s.tag = "Idle" -> s = Idle
      [] s.tag = "Running" ->
            /\ s = Running(s.started, s.elapsed_before_pause)
            /\ s.started \in 0..now
            /\ s.elapsed_before_pause \in Nat
      [] s.tag = "Paused" -> s = Paused(s.elapsed) /\ s.elapsed \in Nat
      [] OTHER -> FALSE

\* A value of type PomodoroTimer: every field within the range of its type.
C32_IsTimer(t) ==
    /\ DOMAIN t = DOMAIN NewTimer
    /\ t.phase \in {"Work", "ShortBreak", "LongBreak"}
    /\ C32_IsTimerState(t.state)
    /\ t.work_duration \in Nat
    /\ t.short_break \in Nat
    /\ t.long_break \in Nat
    /\ t.sessions_until_long \in 0..(U8Modulus - 1)
    /\ t.sessions_completed \in 0..(U8Modulus - 1)

\* Every operation, called in the current state, returns a value of its type.
C32_Defined ==
    /\ C32_IsTimer(timer)
    /\ C32_IsTimer(start(timer, now))
    /\ C32_IsTimer(pause(timer, now))
    /\ C32_IsTimer(reset(timer))
    /\ C32_IsTimer(advance_phase(timer))
    /\ C32_IsTimer(skip_break(timer))
    /\ \A c \in WideConfigs : is_valid(c) /\ C32_IsTimer(apply_config(timer, c))
    /\ elapsed(timer, now) \in Nat
    /\ remaining(timer, now) \in Nat
    /\ is_finished(timer, now) \in BOOLEAN

\* The arithmetic that panics when it leaves the range of its type stays
\* within it: the `sessions_completed += 1` of advance_phase in the Work
\* phase, and the subtraction of remaining (it saturates at zero).
C32_NoPanic ==
    /\ timer.phase = "Work" => timer.sessions_completed + 1 < U8Modulus
    /\ remaining(timer, now) + elapsed(timer, now) >= current_phase_duration(timer)

\* C32: Timer operations are total. Every operation of the timer engine
\* (start, pause, reset, advance_phase, skip_break, apply_config, elapsed,
\* remaining, is_finished) is defined in every combination of phase, run-state
\* and counter value reachable through any sequence of operations with valid
\* configs, and none of them fails or panics.
C32_OperationsTotal == C32_Defined /\ C32_NoPanic

\* C32 witness: the counter at its largest, one below a threshold of 255, in a
\* Work phase that was paused after running for a while.
C32_Witness ==
    /\ timer.phase = "Work"
    /\ timer.sessions_until_long = U8Modulus - 1
    /\ timer.sessions_completed = U8Modulus - 2
    /\ is_paused(timer)
    /\ elapsed(timer, now) > 0
    /\ last = "pause"

\* ---------------------------------------------------------------- C34
\* 'd' is pressed in the history view.
C34_DeletePressed == last' = "d" /\ view = "History" /\ modal = "None"

\* The row of the history list the selection is on, when it is on one.
C34_OnRow ==
    /\ data.history_state.tag = "Some"
    /\ data.history_state.value < Len(build_history_items(data.sessions))

C34_SelectedRow == build_history_items(data.sessions)[data.history_state.value + 1]

\* C34 as stated: deleting from history removes the selected session. Pressing
\* 'd' in the history view deletes from storage exactly the session shown at
\* the selected row of the history list (whose rows consist of date headers
\* and sessions), and deletes no other session; when the selected row is not a
\* session row nothing is deleted.
C34_AsStatedStep ==
    C34_DeletePressed =>
        IF C34_OnRow /\ C34_SelectedRow.kind = "session"
        THEN LET id == C34_SelectedRow.session.id.value IN
             /\ deleted' = <<id>>
             /\ table' \in {table, delete_session(table, id)}
        ELSE /\ deleted' = <<>>
             /\ table' = table

C34_AsStated == [][C34_AsStatedStep]_vars

\* C34 witness: with the selection on row 0, which is a date header whenever
\* the list shows sessions, 'd' has deleted a session from storage.
C34_Witness ==
    /\ last = "d"
    /\ view = "History"
    /\ data.history_state = Some(0)
    /\ Len(deleted) = 1
    /\ \A r \in table : r.id # deleted[1]

\* ---------------------------------------------------------------- C31
\* The phase in progress completes: the timer leaves it.
C31_PhaseCompletes ==
    /\ (timer.phase = "Work") ~> (timer.phase # "Work")
    /\ (timer.phase = "ShortBreak") ~> (timer.phase # "ShortBreak")
    /\ (timer.phase = "LongBreak") ~> (timer.phase # "LongBreak")

\* The cycle continues forever.
C31_CycleForever ==
    /\ []<>(timer.phase = "Work")
    /\ []<>is_break(timer.phase)
    /\ []<>(timer.phase = "LongBreak")

\* C31: Unattended auto-continue (liveness). If the timer is Running, the
\* clock keeps advancing and ticks keep being processed (fairness on ticks)
\* and no user action occurs, then the current phase eventually completes and
\* the next phase begins Running without user confirmation; hence the cycle
\* continues forever, with Work and break phases each entered infinitely often
\* and a LongBreak entered infinitely often.
C31_UnattendedAutoContinue ==
    /\ []is_running(timer)
    /\ C31_PhaseCompletes
    /\ C31_CycleForever

\* C31 witness: a tick has started a Work phase after a long break (the
\* counter is back at 0 and the session of the first Work phase is Ready),
\* and the timer is Running.
C31_Witness ==
    /\ last = "tick"
    /\ timer.phase = "Work"
    /\ timer.sessions_completed = 0
    /\ is_running(timer)
    /\ elapsed(timer, now) = 0
    /\ session_phase.tag = "Ready"

====
